---- MODULE Spec2Model ----
(***************************************************************************)
(* A model of qcsubmit/datasets.py: the de-duplicating ComponentResult,    *)
(* DatasetEntry / BasicDataset.add_molecule, and the three dataset merges  *)
(* (BasicDataset, OptimizationDataset and TorsiondriveDataset __add__).    *)
(*                                                                         *)
(* Molecules.  A molecule is a species (what to_inchikey and the           *)
(* isomorphism test see) together with an atom ordering `ord`: ord[i] is   *)
(* the identity of the atom stored at index i.  Atoms of a species are     *)
(* pairwise distinguishable, so the atom map between two orderings of one  *)
(* species is unique.  A conformer is the tuple of the coordinates of the  *)
(* atoms in index order; the coordinate of atom a in conformation k is the *)
(* number 10*k + a.                                                        *)
(***************************************************************************)
EXTENDS Integers, Sequences, FiniteSets, TLC

VARIABLES kept, rejected, fed, heap, ds, last,
          made, calls, cfg, server, wire, files, loaded

vars == <<kept, rejected, fed, heap, ds, last,
          made, calls, cfg, server, wire, files, loaded>>

\* made: the outcome of the last DatasetEntry construction; calls: the calls of
\* filter_molecules made so far
entryVars == <<made, calls>>
\* cfg: the name, metadata and specifications of the dataset being submitted or
\* written; server: the collections of the archive; wire: the requests sent to it
submitVars == <<cfg, server, wire>>
\* files: the files written; loaded: the dataset read back from a file
exportVars == <<files, loaded>>

(***************************************************************************)
(* Bounds of the model.                                                    *)
(***************************************************************************)
MaxFeed == 3

\* the atoms of a molecule: a chain 1-2-3-4-5, the shortest with two torsions
Atoms == 1..5
NAtoms == Cardinality(Atoms)
\* the conformations a molecule may be in (conformation 0 is the generated one)
Conformations == 1..2
Species == {"M1", "M2"}

(***************************************************************************)
(* Atom orderings: the identity, a cyclic shift (not its own inverse) and  *)
(* a transposition (its own inverse).                                      *)
(***************************************************************************)
IdOrd == [i \in Atoms |-> i]
RotOrd == [i \in Atoms |-> (i % NAtoms) + 1]
SwapOrd == [i \in Atoms |-> IF i = 1 THEN 2 ELSE IF i = 2 THEN 1 ELSE i]
Orders == {IdOrd, RotOrd, SwapOrd}

\* the coordinates of conformation k written in the atom order ord
Frame(k, ord) == [i \in Atoms |-> 10 * k + ord[i]]

\* the conformation lists a molecule may carry
ConfLists ==
  {<<>>} \cup {<<c>> : c \in Conformations}
         \cup {cl \in (Conformations) \X (Conformations) : cl[1] # cl[2]}

\* off.Molecule objects handed to the ComponentResult
MakeMol(sp, ord, cl) ==
  [sp |-> sp, ord |-> ord, confs |-> [n \in 1..Len(cl) |-> Frame(cl[n], ord)]]

Molecules == {MakeMol(sp, ord, cl) : sp \in Species, ord \in Orders, cl \in ConfLists}

\* molecule.to_inchikey(fixed_hydrogens=True): independent of order and conformers.
\* The species M1b is a graph that is not isomorphic to M1 but has the key of M1.
InchiKey(mol) == IF mol.sp = "M1b" THEN "M1" ELSE mol.sp

\* off.Molecule.are_isomorphic(a, b, return_atom_map=True): index in a -> index in b
AtomMap(a, b) == [i \in Atoms |-> CHOOSE j \in Atoms : b.ord[j] = a.ord[i]]

AreIsomorphic(a, b) == a.sp = b.sp

(***************************************************************************)
(* ComponentResult                                                         *)
(***************************************************************************)
\* new_conformer[i] = conformer[mapping[i]]
TransferConformer(conformer, mapping) == [i \in Atoms |-> conformer[mapping[i]]]

InSeq(x, s) == \E n \in 1..Len(s) : s[n] = x

RECURSIVE TransferConformers(_, _, _, _)
TransferConformers(old, confs, mapping, n) ==
  IF n > Len(confs) THEN old
  ELSE LET new_conf == TransferConformer(confs[n], mapping)
           upd == IF InSeq(new_conf, old) THEN old ELSE Append(old, new_conf)
       IN TransferConformers(upd, confs, mapping, n + 1)

\* the value of self._molecules after add_molecule(molecule)
AddToKept(molecules, molecule) ==
  LET molecule_hash == InchiKey(molecule)
  IN IF molecule_hash \in DOMAIN molecules
       THEN LET mapping == AtomMap(molecule, molecules[molecule_hash])
                cur == molecules[molecule_hash]
            IN IF Len(molecule.confs) # 0
                 THEN [molecules EXCEPT ![molecule_hash] =
                         [cur EXCEPT !.confs =
                            TransferConformers(cur.confs, molecule.confs, mapping, 1)]]
                 ELSE molecules
       ELSE [k \in DOMAIN molecules \cup {molecule_hash} |->
               IF k = molecule_hash THEN molecule ELSE molecules[k]]

\* TorsionIndexer.update(torsion_indexer, reorder_mapping): the torsions of the
\* incoming molecule are added to the indexer in the atom order of the kept molecule
UpdateIndexer(current_indexer, torsion_indexer, reorder_mapping) ==
  current_indexer \cup
    {[n \in 1..4 |-> reorder_mapping[t[n]]] : t \in torsion_indexer}

\* the transfer of the "dihedrals" property to the kept molecule
TransferDihedrals(molecules, molecule) ==
  LET molecule_hash == InchiKey(molecule)
      cur == molecules[molecule_hash]
      mapping == AtomMap(molecule, cur)
      current_indexer == IF "dihedrals" \in DOMAIN cur THEN cur.dihedrals ELSE {}
      updated == UpdateIndexer(current_indexer, molecule.dihedrals, mapping)
  IN [molecules EXCEPT ![molecule_hash] =
        [f \in DOMAIN cur \cup {"dihedrals"} |->
           IF f = "dihedrals" THEN updated ELSE cur[f]]]

\* a variant that asserts the isomorphism only after the properties and
\* coordinates have been transferred
AddMoleculeResultAssertsLast(molecules, molecule) ==
  LET molecule_hash == InchiKey(molecule)
      known == molecule_hash \in DOMAIN molecules
      transferred == IF known /\ "dihedrals" \in DOMAIN molecule
                       THEN TransferDihedrals(molecules, molecule)
                       ELSE molecules
  IN [err |-> IF known /\ ~AreIsomorphic(molecule, molecules[molecule_hash])
                THEN "AssertionError" ELSE "",
      molecules |-> AddToKept(transferred, molecule)]

\* the outcome of ComponentResult.add_molecule(molecule): the exception raised
\* ("" when it returns) and self._molecules afterwards
AddMoleculeResult(molecules, molecule) ==
  LET molecule_hash == InchiKey(molecule)
  IN IF molecule_hash \in DOMAIN molecules
          /\ ~AreIsomorphic(molecule, molecules[molecule_hash])
       THEN [err |-> "AssertionError", molecules |-> molecules]
     ELSE IF molecule_hash \in DOMAIN molecules /\ "dihedrals" \in DOMAIN molecule
       THEN [err |-> "",
             molecules |-> AddToKept(TransferDihedrals(molecules, molecule), molecule)]
     ELSE [err |-> "", molecules |-> AddToKept(molecules, molecule)]

\* ComponentResult.add_molecule
add_molecule(molecule) ==
  /\ Len(fed) < MaxFeed
  /\ kept' = AddMoleculeResult(kept, molecule).molecules
  /\ fed' = Append(fed, [op |-> "add", mol |-> molecule,
                         err |-> AddMoleculeResult(kept, molecule).err])
  /\ UNCHANGED <<rejected, heap, ds, last, entryVars, submitVars, exportVars>>

\* ComponentResult.filter_molecule: the membership test compares the molecule
\* object with the string keys of the map, so the entry is always (re)written
filter_molecule(molecule) ==
  LET molecule_hash == InchiKey(molecule)
  IN /\ Len(fed) < MaxFeed
     /\ kept' = [k \in DOMAIN kept \ {molecule_hash} |-> kept[k]]
     /\ rejected' = [k \in DOMAIN rejected \cup {molecule_hash} |->
                       IF k = molecule_hash THEN molecule ELSE rejected[k]]
     /\ fed' = Append(fed, [op |-> "filter", mol |-> molecule, err |-> ""])
     /\ UNCHANGED <<heap, ds, last, entryVars, submitVars, exportVars>>

FilterInputs == {MakeMol(sp, IdOrd, <<>>) : sp \in Species}


(***************************************************************************)
(* Datasets.  Entries are objects: `heap` maps an object id to the         *)
(* DatasetEntry stored there, and a dataset's `items` is its `dataset`     *)
(* dict in insertion order, each item a key and the id of the entry        *)
(* object.  Two datasets that hold the same id share that entry.           *)
(* ds[1], ds[2] and ds[3] are three dataset variables of a script; every   *)
(* merge is bound to ds[3].                                                *)
(***************************************************************************)
MaxAdds == 2
MaxMerges == 2

Slots == 1..3
Kinds == <<"DataSet", "OptimizationDataset", "TorsiondriveDataset">>

\* indices "a-0", "a-1", ... as the pair IndexCleaner._clean_index splits them into
Indices == {[core |-> "a", tag |-> t] : t \in 0..1}

\* the index of atom a in the order ord
Pos(ord, a) == CHOOSE i \in Atoms : ord[i] = a

\* freeze-distance constraints between atoms 1-2 and atoms 2-3, in index order
ConsOf(name, ord) ==
  IF name = "X" THEN << <<Pos(ord, 1), Pos(ord, 2)>> >>
  ELSE IF name = "Y" THEN << <<Pos(ord, 2), Pos(ord, 3)>> >>
  \* a constraint on an index past the last atom
  ELSE IF name = "Bad" THEN << <<Pos(ord, 1), NAtoms + 1>> >>
  ELSE <<>>

\* torsions along the chain 1-2-3-4-5, in index order
Torsion(ord, a, b, c, d) == <<Pos(ord, a), Pos(ord, b), Pos(ord, c), Pos(ord, d)>>

DihOf(name, ord) ==
  IF name = "T1" THEN << Torsion(ord, 1, 2, 3, 4) >>
  ELSE IF name = "T1r" THEN << Torsion(ord, 4, 3, 2, 1) >>
  ELSE IF name = "T2" THEN << Torsion(ord, 2, 3, 4, 5) >>
  ELSE IF name = "T12" THEN << Torsion(ord, 1, 2, 3, 4), Torsion(ord, 2, 3, 4, 5) >>
  \* tuples over the branched molecule M3 (see Bonds)
  ELSE IF name = "Imp" THEN << Torsion(ord, 1, 2, 3, 4) >>
  ELSE IF name = "LinP" THEN << Torsion(ord, 1, 2, 4, 5) >>
  ELSE IF name = "Unc" THEN << Torsion(ord, 1, 3, 5, 2) >>
  ELSE IF name = "LinUnc" THEN << Torsion(ord, 1, 4, 3, 5) >>
  ELSE IF name = "ImpUnc" THEN << Torsion(ord, 1, 2, 3, 4), Torsion(ord, 1, 3, 5, 2) >>
  ELSE IF name = "ImpLinP" THEN << Torsion(ord, 1, 2, 3, 4), Torsion(ord, 1, 2, 4, 5) >>
  ELSE IF name = "UncLinP" THEN << Torsion(ord, 1, 3, 5, 2), Torsion(ord, 1, 2, 4, 5) >>
  ELSE <<>>

ElementsOf(sp) ==
  IF sp = "M1" THEN {"C", "H"}
  ELSE IF sp = "M3" THEN {"C", "H", "Cl"}
  ELSE {"C", "H", "O"}

\* molecule.to_smiles(isomeric=True, explicit_hydrogens=True)
ToSmiles(mol) == mol.sp

(***************************************************************************)
(* The validators of an entry.  M1 and M2 are the chain 1-2-3-4-5; M3 is   *)
(* branched at atom 2 (1-2, 2-3, 2-4, 4-5) and its atom 4 is linear.       *)
(***************************************************************************)
Bonds(sp) ==
  IF sp = "M3" THEN {{1, 2}, {2, 3}, {2, 4}, {4, 5}}
  ELSE {{1, 2}, {2, 3}, {3, 4}, {4, 5}}

LinearAtoms(sp) == IF sp = "M3" THEN {4} ELSE {}

\* the atoms at indices i and j of the molecule are bonded
Bonded(mol, i, j) == {mol.ord[i], mol.ord[j]} \in Bonds(mol.sp)

\* check_constraints: every index of every constraint is an atom of the molecule
CheckConstraints(cons, mol) ==
  \A n \in 1..Len(cons) : \A k \in 1..Len(cons[n]) : cons[n][k] \in Atoms

\* check_linear_torsions: neither central atom of the torsion is linear
CheckLinearTorsions(torsion, mol) ==
  /\ mol.ord[torsion[2]] \notin LinearAtoms(mol.sp)
  /\ mol.ord[torsion[3]] \notin LinearAtoms(mol.sp)

\* check_torsion_connection: consecutive atoms of the torsion are bonded
CheckTorsionConnection(torsion, mol) ==
  /\ Bonded(mol, torsion[1], torsion[2])
  /\ Bonded(mol, torsion[2], torsion[3])
  /\ Bonded(mol, torsion[3], torsion[4])

\* check_improper_connection: the second atom is bonded to the three others
CheckImproperConnection(improper, mol) ==
  /\ Bonded(mol, improper[2], improper[1])
  /\ Bonded(mol, improper[2], improper[3])
  /\ Bonded(mol, improper[2], improper[4])

\* one validation step of the constructor, for the log of a construction
Check(name, torsion) == [check |-> name, torsion |-> torsion]

\* a variant of the loop that tests the connection of a torsion before its linearity
RECURSIVE ValidateDihedralsConnectionFirst(_, _, _, _)
ValidateDihedralsConnectionFirst(mol, dih, n, log) ==
  IF n > Len(dih) THEN [err |-> "", torsion |-> <<>>, log |-> log]
  ELSE LET t == dih[n]
           proper == Append(log, Check("check_torsion_connection", t))
           improper == Append(proper, Check("check_improper_connection", t))
           done == IF CheckTorsionConnection(t, mol) THEN proper ELSE improper
           linear == Append(done, Check("check_linear_torsions", t))
       IN IF ~CheckTorsionConnection(t, mol) /\ ~CheckImproperConnection(t, mol)
            THEN [err |-> "DihedralConnectionError", torsion |-> t, log |-> improper]
          ELSE IF ~CheckLinearTorsions(t, mol)
            THEN [err |-> "DihedralConnectionError", torsion |-> t, log |-> linear]
          ELSE ValidateDihedralsConnectionFirst(mol, dih, n + 1, linear)

\* the loop over self.dihedrals in DatasetEntry.__init__, from torsion n on
RECURSIVE ValidateDihedrals(_, _, _, _)
ValidateDihedrals(mol, dih, n, log) ==
  IF n > Len(dih) THEN [err |-> "", torsion |-> <<>>, log |-> log]
  ELSE LET t == dih[n]
           linear == Append(log, Check("check_linear_torsions", t))
           proper == Append(linear, Check("check_torsion_connection", t))
           improper == Append(proper, Check("check_improper_connection", t))
       IN IF ~CheckLinearTorsions(t, mol)
            THEN [err |-> "DihedralConnectionError", torsion |-> t, log |-> linear]
          ELSE IF CheckTorsionConnection(t, mol)
            THEN ValidateDihedrals(mol, dih, n + 1, proper)
          ELSE IF CheckImproperConnection(t, mol)
            THEN ValidateDihedrals(mol, dih, n + 1, improper)
          ELSE [err |-> "DihedralConnectionError", torsion |-> t, log |-> improper]

\* the validation done by DatasetEntry.__init__: the conversion to QCSchema
\* molecules, then the constraints, then the dihedrals one after the other
ValidateEntry(molecule, cons, dih) ==
  LET schema == << Check("to_qcschema", <<>>) >>
      constrained == Append(schema, Check("check_constraints", <<>>))
  IN IF ~molecule.ok
       THEN [err |-> "ValidationError", torsion |-> <<>>, log |-> schema]
     ELSE IF ~CheckConstraints(cons, molecule)
       THEN [err |-> "ConstraintError", torsion |-> <<>>, log |-> constrained]
     ELSE ValidateDihedrals(molecule, dih, 1, constrained)

\* the molecules handed to BasicDataset.add_molecule; ok = FALSE marks a molecule
\* for which no valid QCSchema molecule can be made
DsMol(sp, ord, cl, ok) ==
  [sp |-> sp, ord |-> ord, confs |-> [n \in 1..Len(cl) |-> Frame(cl[n], ord)], ok |-> ok]

\* the calls of add_molecule explored for a dataset of each kind: the molecule,
\* the name of its constraints and the name of its dihedrals
AddCall(m, cn, dn) == [mol |-> m, cn |-> cn, dn |-> dn]

AddCalls(kind) ==
  IF kind = "DataSet"
    THEN {AddCall(m, "none", "none") :
            m \in {DsMol("M1", IdOrd, <<1>>, TRUE), DsMol("M1", RotOrd, <<1>>, TRUE),
                   DsMol("M1", RotOrd, <<2>>, TRUE), DsMol("M1", IdOrd, <<>>, TRUE),
                   DsMol("M2", IdOrd, <<1>>, TRUE), DsMol("M2", IdOrd, <<1>>, FALSE)}}
  ELSE IF kind = "OptimizationDataset"
    THEN {AddCall(m, cn, "none") :
            m \in {DsMol("M1", IdOrd, <<1>>, TRUE), DsMol("M1", RotOrd, <<1>>, TRUE),
                   DsMol("M1", RotOrd, <<2>>, TRUE)},
            cn \in {"X", "Y"}}
         \cup {AddCall(DsMol("M2", IdOrd, <<1>>, TRUE), "X", "none"),
               AddCall(DsMol("M2", IdOrd, <<1>>, FALSE), "X", "none")}
  ELSE {AddCall(m, "none", dn) :
          m \in {DsMol("M1", IdOrd, <<1>>, TRUE), DsMol("M1", RotOrd, <<2>>, TRUE)},
          dn \in {"T1", "T1r", "T2", "T12"}}
       \cup {AddCall(DsMol("M2", IdOrd, <<1>>, TRUE), "none", "T1"),
             AddCall(DsMol("M2", IdOrd, <<1>>, FALSE), "none", "T1")}

\* a variant that leaves a molecule without conformers as it is
GenerateConformersNone(mol) == mol

\* off_molecule.generate_conformers(n_conformers=1)
GenerateConformers(mol) ==
  IF Len(mol.confs) = 0 THEN [mol EXCEPT !.confs = <<Frame(0, mol.ord)>>] ELSE mol

\* DatasetEntry.__init__ for a molecule that passes validation
DatasetEntry(index, molecule, cons, dih) ==
  LET off_molecule == GenerateConformers(molecule)
      smi == <<molecule.sp, molecule.ord>>
  IN [index |-> index, sp |-> molecule.sp, ord |-> molecule.ord,
      geoms |-> [n \in 1..Len(off_molecule.confs) |->
                   [xyz |-> off_molecule.confs[n], smi |-> smi]],
      cons |-> cons, dih |-> dih]

\* position of key in the dict, 0 when absent
RECURSIVE KeyPos(_, _, _)
KeyPos(items, key, n) ==
  IF n > Len(items) THEN 0
  ELSE IF items[n].key = key THEN n ELSE KeyPos(items, key, n + 1)

\* dict[key] = obj
SetItem(items, key, obj) ==
  LET p == KeyPos(items, key, 1)
  IN IF p = 0 THEN Append(items, [key |-> key, obj |-> obj])
     ELSE [items EXCEPT ![p] = [key |-> key, obj |-> obj]]

\* FilterEntry(off_molecules=..., component_name=...): the molecules are kept as smiles
FilterEntry(off_molecules, component_name) ==
  [component_name |-> component_name,
   molecules |-> [n \in 1..Len(off_molecules) |-> ToSmiles(off_molecules[n])]]

\* a variant that files a fresh record on every call
FilterMoleculesReplaces(filtered_molecules, molecules, component_name) ==
  LET filter_data == FilterEntry(molecules, component_name)
  IN [c \in DOMAIN filtered_molecules \cup {filter_data.component_name} |->
        IF c = filter_data.component_name THEN filter_data ELSE filtered_molecules[c]]

\* BasicDataset.filter_molecules
FilterMolecules(filtered_molecules, molecules, component_name) ==
  IF component_name \in DOMAIN filtered_molecules
    THEN [filtered_molecules EXCEPT ![component_name].molecules =
            @ \o [n \in 1..Len(molecules) |-> ToSmiles(molecules[n])]]
    ELSE LET filter_data == FilterEntry(molecules, component_name)
         IN [c \in DOMAIN filtered_molecules \cup {filter_data.component_name} |->
               IF c = filter_data.component_name THEN filter_data
               ELSE filtered_molecules[c]]

(***************************************************************************)
(* Garbage collection and canonical numbering of the entry objects: the    *)
(* objects are renumbered in the order ds[1], ds[2], ds[3] first refer to  *)
(* them.  Object ids are not observable by the program.                    *)
(***************************************************************************)
RECURSIVE Uniq(_, _, _)
Uniq(s, n, acc) ==
  IF n > Len(s) THEN acc
  ELSE Uniq(s, n + 1, IF InSeq(s[n], acc) THEN acc ELSE Append(acc, s[n]))

Refs(d) == [n \in 1..Len(d.items) |-> d.items[n].obj]

NormOrder(h, d) == Uniq(Refs(d[1]) \o Refs(d[2]) \o Refs(d[3]), 1, <<>>)

NormHeap(h, d) == LET o == NormOrder(h, d) IN [n \in 1..Len(o) |-> h[o[n]]]

NormDs(h, d) ==
  LET o == NormOrder(h, d)
      ren(x) == CHOOSE n \in 1..Len(o) : o[n] = x
  IN [s \in Slots |->
        [d[s] EXCEPT !.items =
           [n \in 1..Len(d[s].items) |->
              [key |-> d[s].items[n].key, obj |-> ren(d[s].items[n].obj)]]]]

EmptyDataset(kind) ==
  [kind |-> kind, items |-> <<>>, elements |-> {}, filtered |-> <<>>]

\* a variant that lets the ValidationError escape instead of filtering the molecule
AddMoleculeOutcomeRaises(h, d, index, molecule, cn, dn) ==
  IF molecule.ok
    THEN LET data_entry == DatasetEntry(index, molecule,
                                        ConsOf(cn, molecule.ord), DihOf(dn, molecule.ord))
         IN [heap |-> Append(h, data_entry),
             d |-> [d EXCEPT !.items = SetItem(@, index, Len(h) + 1),
                             !.elements = @ \cup ElementsOf(data_entry.sp)],
             err |-> ""]
    ELSE [heap |-> h, d |-> d, err |-> "ValidationError"]

\* a variant that stores the entry under the index before the entry is validated
AddMoleculeOutcomeStoresFirst(h, d, index, molecule, cn, dn) ==
  LET cons == ConsOf(cn, molecule.ord)
      dih == DihOf(dn, molecule.ord)
      v == ValidateEntry(molecule, cons, dih)
      data_entry == DatasetEntry(index, molecule, cons, dih)
  IN IF v.err = "ValidationError"
       THEN [heap |-> h,
             d |-> [d EXCEPT !.filtered = FilterMolecules(@, <<molecule>>, "QCSchemaIssues")],
             err |-> ""]
     ELSE [heap |-> Append(h, data_entry),
           d |-> [d EXCEPT !.items = SetItem(@, index, Len(h) + 1),
                           !.elements = @ \cup ElementsOf(data_entry.sp)],
           err |-> v.err]

\* the outcome of BasicDataset.add_molecule(index, molecule, ...) on dataset d:
\* the ValidationError of a molecule without a valid QCSchema is caught and the
\* molecule is filtered, any other exception of the constructor leaves the method,
\* else the entry is stored and the elements are updated
AddMoleculeOutcome(h, d, index, molecule, cn, dn) ==
  LET cons == ConsOf(cn, molecule.ord)
      dih == DihOf(dn, molecule.ord)
      v == ValidateEntry(molecule, cons, dih)
  IN IF v.err = ""
       THEN LET data_entry == DatasetEntry(index, molecule, cons, dih)
            IN [heap |-> Append(h, data_entry),
                d |-> [d EXCEPT !.items = SetItem(@, index, Len(h) + 1),
                                !.elements = @ \cup ElementsOf(data_entry.sp)],
                err |-> ""]
     ELSE IF v.err = "ValidationError"
       THEN [heap |-> h,
             d |-> [d EXCEPT !.filtered = FilterMolecules(@, <<molecule>>, "QCSchemaIssues")],
             err |-> ""]
     ELSE [heap |-> h, d |-> d, err |-> v.err]

\* the record of the last operation: its name, operands, the exception it raised
\* ("" when it returned) and, for a merge, what was done with each entry of other
Op(op, s, o, arg, err, acts, adds, merges) ==
  [op |-> op, self |-> s, other |-> o, arg |-> arg, err |-> err, acts |-> acts,
   adds |-> adds, merges |-> merges]

NoArg == [index |-> [core |-> "", tag |-> 0], sp |-> "", ok |-> TRUE]

\* ds[s].add_molecule(index, molecule, ...)
AddMolecule(s, index, molecule, cn, dn) ==
  /\ last.adds < MaxAdds
  /\ LET r == AddMoleculeOutcome(heap, ds[s], index, molecule, cn, dn)
         d == [ds EXCEPT ![s] = r.d]
     IN /\ heap' = NormHeap(r.heap, d)
        /\ ds' = NormDs(r.heap, d)
        /\ last' = Op("add_molecule", s, 0,
                      [index |-> index, sp |-> molecule.sp, ok |-> molecule.ok],
                      r.err, <<>>, last.adds + 1, last.merges)
  /\ UNCHANGED <<kept, rejected, fed, entryVars, submitVars, exportVars>>

(***************************************************************************)
(* The merges.  A merge works on w = [heap, items, acts, err]: the heap,   *)
(* the dict of new_dataset, a log with one record per entry of `other`     *)
(* saying what was done with it, and the exception that ended the loop.    *)
(***************************************************************************)
\* copy.deepcopy(self): fresh entry objects with the same contents
DeepCopy(h, items) ==
  [heap |-> h \o [n \in 1..Len(items) |-> h[items[n].obj]],
   items |-> [n \in 1..Len(items) |-> [key |-> items[n].key, obj |-> Len(h) + n]]]

\* BasicDataset.get_molecule_entry: the index fields of the isomorphic entries
GetMoleculeEntry(h, items, molecule) ==
  LET Hit(it) == AreIsomorphic(molecule, h[it.obj])
      hits == SelectSeq(items, Hit)
  IN [n \in 1..Len(hits) |-> h[hits[n].obj].index]

\* Molecule.remap(mapping_dict=atom_map, current_to_new=True) on one conformer:
\* the atom at index i moves to index atom_map[i]
Remap(xyz, atom_map) == [j \in Atoms |-> xyz[CHOOSE i \in Atoms : atom_map[i] = j]]

\* mapped_schema in current_entry.initial_molecules (molecules compare by hash
\* of the structure, the extras do not take part)
HasGeometry(geoms, xyz) == \E n \in 1..Len(geoms) : geoms[n].xyz = xyz

\* a variant that passes on the extras of the incoming geometry
RECURSIVE TransferGeometriesOwnExtras(_, _, _, _)
TransferGeometriesOwnExtras(cur, confs, atom_map, n) ==
  IF n > Len(confs) THEN cur
  ELSE LET mapped_schema == [xyz |-> Remap(confs[n].xyz, atom_map), smi |-> confs[n].smi]
       IN TransferGeometriesOwnExtras(
            IF HasGeometry(cur, mapped_schema.xyz) THEN cur ELSE Append(cur, mapped_schema),
            confs, atom_map, n + 1)

\* the loop that remaps and transfers the conformers of entry into current_entry
RECURSIVE TransferGeometries(_, _, _, _)
TransferGeometries(cur, confs, atom_map, n) ==
  IF n > Len(confs) THEN cur
  ELSE LET mapped_schema == [xyz |-> Remap(confs[n].xyz, atom_map), smi |-> cur[1].smi]
       IN TransferGeometries(
            IF HasGeometry(cur, mapped_schema.xyz) THEN cur ELSE Append(cur, mapped_schema),
            confs, atom_map, n + 1)

Fuse(h, cobj, entry) ==
  [h EXCEPT ![cobj].geoms =
     TransferGeometries(@, entry.geoms, AtomMap(entry, h[cobj]), 1)]

Act(key, act, into) == [key |-> key, act |-> act, into |-> into]

\* the loop of BasicDataset.__add__ over other.dataset.items()
RECURSIVE BasicLoop(_, _, _)
BasicLoop(w, oitems, n) ==
  IF n > Len(oitems) \/ w.err # "" THEN w
  ELSE LET index == oitems[n].key
           obj == oitems[n].obj
           entry == w.heap[obj]
           entry_ids == GetMoleculeEntry(w.heap, w.items, entry)
       IN IF Len(entry_ids) = 0
            THEN BasicLoop([w EXCEPT !.items = SetItem(@, index, obj),
                                     !.acts = Append(@, Act(index, "insert", index))],
                           oitems, n + 1)
            ELSE LET mol_id == entry_ids[1]
                     p == KeyPos(w.items, mol_id, 1)
                 IN IF p = 0
                      THEN [w EXCEPT !.err = "KeyError"]
                      ELSE BasicLoop([w EXCEPT !.heap = Fuse(@, w.items[p].obj, entry),
                                               !.acts = Append(@, Act(index, "fuse", mol_id))],
                                     oitems, n + 1)

\* utils.remap_list
RemapList(indices, atom_map) == [n \in 1..Len(indices) |-> atom_map[indices[n]]]

\* entry_constraints: the constraints of entry rebuilt in the atom order of current_entry
RemapConstraints(cons, atom_map) == [n \in 1..Len(cons) |-> RemapList(cons[n], atom_map)]

ConstraintsMatch(current_entry, entry) ==
  current_entry.cons = RemapConstraints(entry.cons, AtomMap(entry, current_entry))

\* a variant that moves the tag on by one
NewIndexNextTag(index, records) == [core |-> index.core, tag |-> index.tag + 1]

\* core + f"-{tag + records}"
NewIndex(index, records) == [core |-> index.core, tag |-> index.tag + records]

\* the inner loop of OptimizationDataset.__add__ over entry_ids; the result says
\* which entry matched (0: none) and how many records were counted
RECURSIVE OptScan(_, _, _, _, _)
OptScan(h, items, entry, entry_ids, st) ==
  IF st.m > Len(entry_ids) THEN st
  ELSE LET p == KeyPos(items, entry_ids[st.m], 1)
       IN IF p = 0 THEN [st EXCEPT !.err = "KeyError"]
          ELSE LET current_entry == h[items[p].obj]
                   records == st.records + Len(current_entry.geoms)
               IN IF ConstraintsMatch(current_entry, entry)
                    THEN [st EXCEPT !.records = records, !.hit = p]
                    ELSE OptScan(h, items, entry, entry_ids,
                                 [st EXCEPT !.records = records, !.m = @ + 1])

\* the loop of OptimizationDataset.__add__ over other.dataset.values()
RECURSIVE OptLoop(_, _, _)
OptLoop(w, oitems, n) ==
  IF n > Len(oitems) \/ w.err # "" THEN w
  ELSE LET obj == oitems[n].obj
           entry == w.heap[obj]
           entry_ids == GetMoleculeEntry(w.heap, w.items, entry)
       IN IF Len(entry_ids) # 0
            THEN LET st == OptScan(w.heap, w.items, entry, entry_ids,
                                   [m |-> 1, records |-> 0, hit |-> 0, err |-> ""])
                 IN IF st.err # "" THEN [w EXCEPT !.err = st.err]
                    ELSE IF st.hit # 0
                      THEN OptLoop([w EXCEPT !.heap = Fuse(@, w.items[st.hit].obj, entry),
                                             !.acts = Append(@, Act(oitems[n].key, "fuse",
                                                                    w.items[st.hit].key))],
                                   oitems, n + 1)
                      ELSE LET new_index == NewIndex(entry.index, st.records)
                           IN OptLoop([w EXCEPT !.heap[obj].index = new_index,
                                                !.items = SetItem(@, new_index, obj),
                                                !.acts = Append(@, Act(oitems[n].key, "rename",
                                                                       new_index))],
                                      oitems, n + 1)
            ELSE OptLoop([w EXCEPT !.items = SetItem(@, entry.index, obj),
                                   !.acts = Append(@, Act(oitems[n].key, "insert", entry.index))],
                         oitems, n + 1)

\* current_dihedrals: the central bonds of the entry, forwards and backwards
CurrentDihedrals(current_entry) ==
  {<<current_entry.dih[n][2], current_entry.dih[n][3]>> : n \in 1..Len(current_entry.dih)}
  \cup {<<current_entry.dih[n][3], current_entry.dih[n][2]>> : n \in 1..Len(current_entry.dih)}

\* a variant that gathers the bonds of the incoming entry forwards only
OtherDihedralsForwardOnly(entry, atom_map) ==
  {<<atom_map[entry.dih[n][2]], atom_map[entry.dih[n][3]]>> : n \in 1..Len(entry.dih)}

\* other_dihedrals: the remapped central bonds of the incoming entry
OtherDihedrals(entry, atom_map) ==
  {<<atom_map[entry.dih[n][2]], atom_map[entry.dih[n][3]]>> : n \in 1..Len(entry.dih)}
  \cup {<<atom_map[entry.dih[n][3]], atom_map[entry.dih[n][2]]>> : n \in 1..Len(entry.dih)}

\* difference = current_dihedrals - other_dihedrals; if not difference
DihedralsMatch(current_entry, entry) ==
  CurrentDihedrals(current_entry) \ OtherDihedrals(entry, AtomMap(entry, current_entry)) = {}

\* a variant that goes on after a match and keeps the last one
RECURSIVE TorsionScanKeepsLast(_, _, _, _, _)
TorsionScanKeepsLast(h, items, entry, entry_ids, st) ==
  IF st.m > Len(entry_ids) THEN st
  ELSE LET p == KeyPos(items, entry_ids[st.m], 1)
       IN IF p = 0 THEN [st EXCEPT !.err = "KeyError"]
          ELSE TorsionScanKeepsLast(h, items, entry, entry_ids,
                 [st EXCEPT !.m = @ + 1,
                            !.hit = IF DihedralsMatch(h[items[p].obj], entry) THEN p ELSE @])

\* the inner loop of TorsiondriveDataset.__add__ over entry_ids
RECURSIVE TorsionScan(_, _, _, _, _)
TorsionScan(h, items, entry, entry_ids, st) ==
  IF st.m > Len(entry_ids) THEN st
  ELSE LET p == KeyPos(items, entry_ids[st.m], 1)
       IN IF p = 0 THEN [st EXCEPT !.err = "KeyError"]
          ELSE IF DihedralsMatch(h[items[p].obj], entry)
                 THEN [st EXCEPT !.hit = p]
                 ELSE TorsionScan(h, items, entry, entry_ids, [st EXCEPT !.m = @ + 1])

\* the loop of TorsiondriveDataset.__add__ over other.dataset.items()
RECURSIVE TorsionLoop(_, _, _)
TorsionLoop(w, oitems, n) ==
  IF n > Len(oitems) \/ w.err # "" THEN w
  ELSE LET index == oitems[n].key
           obj == oitems[n].obj
           entry == w.heap[obj]
           entry_ids == GetMoleculeEntry(w.heap, w.items, entry)
           st == TorsionScan(w.heap, w.items, entry, entry_ids,
                             [m |-> 1, records |-> 0, hit |-> 0, err |-> ""])
       IN IF st.err # "" THEN [w EXCEPT !.err = st.err]
          ELSE IF st.hit # 0
            THEN TorsionLoop([w EXCEPT !.heap = Fuse(@, w.items[st.hit].obj, entry),
                                       !.acts = Append(@, Act(index, "fuse",
                                                              w.items[st.hit].key))],
                             oitems, n + 1)
            ELSE TorsionLoop([w EXCEPT !.items = SetItem(@, index, obj),
                                       !.acts = Append(@, Act(index, "insert", index))],
                             oitems, n + 1)

\* the state of the merge when __add__ of a dataset of this kind returns or raises
RunMerge(kind, h, self, other) ==
  LET c == DeepCopy(h, self.items)
      w == [heap |-> c.heap, items |-> c.items, acts |-> <<>>, err |-> ""]
  IN IF kind = "DataSet" THEN BasicLoop(w, other.items, 1)
     ELSE IF kind = "OptimizationDataset" THEN OptLoop(w, other.items, 1)
     ELSE TorsionLoop(w, other.items, 1)

\* a variant without the check of the dataset types
TypesNeverDiffer(self, other) == FALSE

\* self.dataset_type != other.dataset_type
TypesDiffer(self, other) == self.kind # other.kind

\* ds[3] = ds[s] + ds[o]
Merge(s, o) ==
  /\ last.merges < MaxMerges
  /\ IF TypesDiffer(ds[s], ds[o])
       THEN /\ UNCHANGED <<heap, ds>>
            /\ last' = Op("merge", s, o, NoArg, "DatasetCombinationError", <<>>,
                          last.adds, last.merges + 1)
       ELSE LET w == RunMerge(ds[s].kind, heap, ds[s], ds[o])
                new_dataset == [kind |-> ds[s].kind, items |-> w.items,
                                elements |-> ds[s].elements \cup ds[o].elements,
                                filtered |-> ds[s].filtered]
                d == IF w.err = "" THEN [ds EXCEPT ![3] = new_dataset] ELSE ds
            IN /\ heap' = NormHeap(w.heap, d)
               /\ ds' = NormDs(w.heap, d)
               /\ last' = Op("merge", s, o, NoArg, w.err, w.acts,
                             last.adds, last.merges + 1)
  /\ UNCHANGED <<kept, rejected, fed, entryVars, submitVars, exportVars>>

Init ==
  /\ kept = <<>>
  /\ rejected = <<>>
  /\ fed = <<>>
  /\ heap = <<>>
  /\ \E k \in 1..3 :
       ds = [s \in Slots |-> EmptyDataset(Kinds[IF s = 3 THEN (k % 3) + 1 ELSE k])]
  /\ last = Op("init", 0, 0, NoArg, "", <<>>, 0, 0)
  /\ made = <<>> /\ calls = <<>>
  /\ cfg = <<>> /\ server = <<>> /\ wire = <<>>
  /\ files = <<>> /\ loaded = <<>>

NextDedup ==
  \/ \E m \in Molecules : add_molecule(m)
  \/ \E m \in FilterInputs : filter_molecule(m)

SpecDedup == Init /\ [][NextDedup]_vars

Next ==
  \/ \E s \in {1, 2}, i \in Indices :
       \E c \in AddCalls(ds[s].kind) : AddMolecule(s, i, c.mol, c.cn, c.dn)
  \/ \E s \in {1, 3}, o \in Slots : Merge(s, o)

Spec == Init /\ [][Next]_vars

(***************************************************************************)
(* Properties of the ComponentResult (checked under SpecDedup).            *)
(***************************************************************************)
\* the conformer written in the atom order of the kept molecule: the coordinate of
\* incoming atom i at index mapping[i]
ImageInKeptFrame(conformer, mapping) ==
  [j \in Atoms |-> conformer[CHOOSE i \in Atoms : mapping[i] = j]]

\* the two molecules fed so far are duplicates of one another
TwoDuplicatesFed ==
  /\ Len(fed) = 2
  /\ fed[1].op = "add" /\ fed[2].op = "add"
  /\ InchiKey(fed[1].mol) = InchiKey(fed[2].mol)

\* C3: once filter_molecule has been called for a key, the key is in rejected and
\* not in kept in every later state, also after an add_molecule with the same key.
C3_FilteredStaysRejected ==
  \A n \in 1..Len(fed) :
    fed[n].op = "filter" =>
      /\ InchiKey(fed[n].mol) \in DOMAIN rejected
      /\ InchiKey(fed[n].mol) \notin DOMAIN kept

\* C4: feeding A (one conformer) and A' (a reordered copy of A with one extra,
\* different conformer) in either order leaves exactly one kept entry with 1+1
\* conformers, in the atom order of the molecule fed first.
C4_FeedOrderIndependent ==
  \A a, b \in {1, 2} :
    /\ TwoDuplicatesFed /\ a # b
    /\ Len(fed[a].mol.confs) = 1 /\ Len(fed[b].mol.confs) = 2
    /\ fed[a].mol.ord # fed[b].mol.ord
    /\ fed[b].mol.confs[1] =
         ImageInKeptFrame(fed[a].mol.confs[1], AtomMap(fed[a].mol, fed[b].mol))
    => /\ DOMAIN kept = {InchiKey(fed[1].mol)}
       /\ Len(kept[InchiKey(fed[1].mol)].confs) = 2
       /\ kept[InchiKey(fed[1].mol)].ord = fed[1].mol.ord

\* C5: every conformer of a duplicate is stored in the atom order of the kept
\* molecule (the coordinate of incoming atom i at index m[i]), and a conformer
\* whose image is already stored is not appended.
C5_ConformersInKeptFrame ==
  TwoDuplicatesFed =>
    LET first == fed[1].mol
        dup == fed[2].mol
        m == AtomMap(dup, first)
        images == [n \in 1..Len(dup.confs) |-> ImageInKeptFrame(dup.confs[n], m)]
        stored == kept[InchiKey(first)].confs
        fresh == {n \in 1..Len(images) : ~InSeq(images[n], first.confs)}
    IN /\ \A n \in 1..Len(images) : InSeq(images[n], stored)
       /\ Len(stored) = Len(first.confs) + Cardinality(fresh)

(***************************************************************************)
(* Properties of the datasets (checked under Spec).  A step of Merge or    *)
(* AddMolecule is recognised by the record it leaves in last'.             *)
(***************************************************************************)
\* the contents of a dataset: its keys in order, each with the entry stored under it
View(h, d) ==
  [n \in 1..Len(d.items) |-> [key |-> d.items[n].key, entry |-> h[d.items[n].obj]]]

\* the number of entries and the number of geometries of each entry
Counts(h, d) == [n \in 1..Len(d.items) |-> Len(h[d.items[n].obj].geoms)]

MergeStep == last'.op = "merge" /\ last'.merges = last.merges + 1
MergeReturned == MergeStep /\ last'.err = ""
AddStep == last'.op = "add_molecule" /\ last'.adds = last.adds + 1

\* the entry at position n of dataset ds[s] before the step
EntryAt(s, n) == heap[ds[s].items[n].obj]

\* the positions of the entries of ds[s] that are isomorphic to entry
Candidates(s, entry) ==
  {p \in 1..Len(ds[s].items) : AreIsomorphic(entry, EntryAt(s, p))}

\* C1: a merge that returns leaves `other` as it was: same keys, and under each
\* key an entry with the same index, geometries and constraints.
C1_MergeLeavesOtherUnchanged ==
  [][MergeReturned /\ last'.other # 3
       => View(heap', ds'[last'.other]) = View(heap, ds[last'.other])]_vars

\* C2: (D + I) + I has the entry and geometry counts of D + I, and D + D has
\* the entry and geometry counts of D.
C2_MergeIdempotentCounts ==
  [][/\ (MergeReturned /\ last'.self = last'.other)
          => Counts(heap', ds'[3]) = Counts(heap, ds[last'.self])
     /\ (MergeReturned /\ last'.self = 3 /\ last'.other # 3
           /\ last.op = "merge" /\ last.err = "" /\ last.other = last'.other)
          => Counts(heap', ds'[3]) = Counts(heap, ds[3])]_vars

\* the remapped central bonds of the incoming entry are among those of the entry
IncomingSubset(current_entry, entry) ==
  OtherDihedrals(entry, AtomMap(entry, current_entry)) \subseteq CurrentDihedrals(current_entry)

TorsionMergeReturned ==
  MergeReturned /\ ds[last'.self].kind = "TorsiondriveDataset" /\ Len(ds[last'.other].items) > 0

\* C6: in the dihedral-aware merge the (first) incoming entry is fused exactly when
\* its remapped central bonds, both directions, are a subset of the central bonds
\* of an existing isomorphic entry.
C6_FusedIffIncomingSubset ==
  [][TorsionMergeReturned =>
       LET entry == EntryAt(last'.other, 1)
       IN (last'.acts[1].act = "fuse")
            <=> \E p \in Candidates(last'.self, entry) :
                  IncomingSubset(EntryAt(last'.self, p), entry)]_vars

\* the single central bond of entry, remapped, is the reverse of that of current_entry
ReversedCentralBond(current_entry, entry) ==
  /\ Len(current_entry.dih) = 1 /\ Len(entry.dih) = 1
  /\ LET m == AtomMap(entry, current_entry)
     IN <<m[entry.dih[1][2]], m[entry.dih[1][3]]>>
          = <<current_entry.dih[1][3], current_entry.dih[1][2]>>

\* C7: an incoming entry whose remapped central bond is the reverse of the central
\* bond of an existing isomorphic entry is fused; its geometries are in the entry
\* it was fused into and no entry is created for it.
C7_ReversedCentralBondFused ==
  [][TorsionMergeReturned =>
       LET entry == EntryAt(last'.other, 1)
           s == last'.self
       IN (\E p \in Candidates(s, entry) : ReversedCentralBond(EntryAt(s, p), entry))
            => /\ last'.acts[1].act = "fuse"
               /\ Len(ds[last'.other].items) = 1
                    => /\ Len(ds'[3].items) = Len(ds[s].items)
                       /\ \E q \in 1..Len(ds'[3].items) :
                            LET cur == heap'[ds'[3].items[q].obj]
                            IN /\ ds'[3].items[q].key = last'.acts[1].into
                               /\ AreIsomorphic(entry, cur)
                               /\ \A g \in 1..Len(entry.geoms) :
                                    HasGeometry(cur.geoms,
                                                Remap(entry.geoms[g].xyz, AtomMap(entry, cur)))]_vars

\* C7 witness: ds[3] = ds[1] + ds[2] fused the entry of ds[2], whose central bond is
\* the reverse of that of the entry of ds[1], and its new geometry was stored.
C7_Witness ==
  /\ last.op = "merge" /\ last.err = "" /\ last.self = 1 /\ last.other = 2
  /\ ds[1].kind = "TorsiondriveDataset"
  /\ Len(ds[1].items) = 1 /\ Len(ds[2].items) = 1 /\ Len(ds[3].items) = 1
  /\ ReversedCentralBond(heap[ds[1].items[1].obj], heap[ds[2].items[1].obj])
  /\ heap[ds[1].items[1].obj].ord # heap[ds[2].items[1].obj].ord
  /\ last.acts[1].act = "fuse"
  /\ Len(heap[ds[3].items[1].obj].geoms) = 2

OptMergeReturned ==
  MergeReturned /\ ds[last'.self].kind = "OptimizationDataset" /\ Len(ds[last'.other].items) = 1

\* C8: in the constraint-aware merge an incoming entry that is isomorphic to existing
\* entries but whose remapped constraints equal those of none of them is not fused:
\* the result holds every existing entry unchanged and the incoming entry besides;
\* and an entry is fused only into an entry with equal constraints.
C8_DifferentConstraintsKeptApart ==
  [][OptMergeReturned =>
       LET entry == EntryAt(last'.other, 1)
           s == last'.self
           cands == Candidates(s, entry)
       IN /\ (cands # {} /\ \A p \in cands : ~ConstraintsMatch(EntryAt(s, p), entry))
               => /\ last'.acts[1].act # "fuse"
                  /\ Len(ds'[3].items) = Len(ds[s].items) + 1
                  /\ \A p \in 1..Len(ds[s].items) :
                       \E q \in 1..Len(ds'[3].items) :
                         /\ ds'[3].items[q].key = ds[s].items[p].key
                         /\ heap'[ds'[3].items[q].obj] = EntryAt(s, p)
                  /\ \E q \in 1..Len(ds'[3].items) :
                       LET e == heap'[ds'[3].items[q].obj]
                       IN e.sp = entry.sp /\ e.ord = entry.ord
                          /\ e.cons = entry.cons /\ e.geoms = entry.geoms
          /\ last'.acts[1].act = "fuse"
               => \E p \in cands :
                    /\ ds[s].items[p].key = last'.acts[1].into
                    /\ ConstraintsMatch(EntryAt(s, p), entry)]_vars

\* C9: a merge of datasets of different dataset_type raises
\* DatasetCombinationError, produces no dataset and changes neither operand.
C9_TypeMismatchRejected ==
  [][MergeStep /\ ds[last'.self].kind # ds[last'.other].kind
       => /\ last'.err = "DatasetCombinationError"
          /\ heap' = heap
          /\ ds' = ds]_vars

\* C9 witness: a merge of a dataset with entries and a dataset of another type raised.
C9_Witness ==
  /\ last.op = "merge" /\ last.err = "DatasetCombinationError"
  /\ ds[last.self].kind # ds[last.other].kind
  /\ Len(ds[last.self].items) + Len(ds[last.other].items) > 0

\* what add_molecule establishes, with the schema issues filed under the given stage
AddMoleculeContract(stage) ==
  LET s == last'.self
      a == last'.arg
  IN AddStep =>
       /\ last'.err = ""
       /\ ~a.ok => /\ ds'[s].items = ds[s].items
                   /\ ds'[s].elements = ds[s].elements
                   /\ heap' = heap
                   /\ DOMAIN ds'[s].filtered = DOMAIN ds[s].filtered \cup {stage}
                   /\ ds'[s].filtered[stage].molecules =
                        (IF stage \in DOMAIN ds[s].filtered
                           THEN ds[s].filtered[stage].molecules ELSE <<>>)
                          \o <<a.sp>>
       /\ a.ok => /\ ds'[s].filtered = ds[s].filtered
                  /\ ds'[s].elements = ds[s].elements \cup ElementsOf(a.sp)
                  /\ \E q \in 1..Len(ds'[s].items) :
                       /\ ds'[s].items[q].key = a.index
                       /\ heap'[ds'[s].items[q].obj].index = a.index
                       /\ heap'[ds'[s].items[q].obj].sp = a.sp

\* C10 as stated: a schema-validation failure in add_molecule is not raised but
\* recorded in the filter ledger under the stage "SchemaIssues", entries and elements
\* unchanged; a valid molecule is stored under its index and its elements are added.
C10_SchemaIssuesStage == [][AddMoleculeContract("SchemaIssues")]_vars

\* C10 as the code has it: the stage is named "QCSchemaIssues".
C10_QCSchemaIssuesStage == [][AddMoleculeContract("QCSchemaIssues")]_vars

\* C10 witness: a molecule was filed under QCSchemaIssues and a later add_molecule
\* on the same dataset stored its entry.
C10_Witness ==
  /\ last.op = "add_molecule" /\ last.arg.ok /\ last.err = ""
  /\ "QCSchemaIssues" \in DOMAIN ds[last.self].filtered
  /\ Len(ds[last.self].items) = 1


(***************************************************************************)
(* The derived counts of a dataset.                                        *)
(***************************************************************************)
RECURSIVE SumLen(_, _)
SumLen(lists, n) == IF n > Len(lists) THEN 0 ELSE Len(lists[n]) + SumLen(lists, n + 1)

\* the values of a dict in insertion order
Values(m, keys) == [n \in 1..Len(keys) |-> m[keys[n]]]

\* BasicDataset.n_filtered: sum of len(data.molecules) over filtered_molecules
NFiltered(d) ==
  LET stages == CHOOSE q \in [1..Cardinality(DOMAIN d.filtered) -> DOMAIN d.filtered] :
                  \A a, b \in DOMAIN q : a # b => q[a] # q[b]
      data == Values(d.filtered, stages)
  IN SumLen([n \in 1..Len(data) |-> data[n].molecules], 1)

\* a variant that counts the entries instead of their geometries
NRecordsCountsEntries(h, d) == Len(d.items)

\* BasicDataset.n_records: sum of len(data.initial_molecules) over dataset.values()
BasicNRecords(h, d) ==
  SumLen([n \in 1..Len(d.items) |-> h[d.items[n].obj].geoms], 1)

\* n_records of the class of d: TorsiondriveDataset overrides it by len(self.dataset)
NRecords(h, d) ==
  IF d.kind = "TorsiondriveDataset" THEN Len(d.items) ELSE BasicNRecords(h, d)

\* n_molecules of the class of d: BasicDataset returns len(self.dataset),
\* OptimizationDataset (and TorsiondriveDataset, which inherits it) the size of
\* the set of the molecules of the entries (molecules are equal when isomorphic)
NMolecules(h, d) ==
  IF d.kind = "DataSet" THEN Len(d.items)
  ELSE Cardinality({h[d.items[n].obj].sp : n \in 1..Len(d.items)})

\* C15: in every dataset, also in the operands after a merge, every key of the
\* entries mapping equals the index field of the entry stored under it.
C15_KeyEqualsIndex ==
  \A s \in Slots : \A n \in 1..Len(ds[s].items) :
    ds[s].items[n].key = heap[ds[s].items[n].obj].index

\* the geometries of a dataset, each named by its entry and its position
GeometrySlots(h, d) ==
  UNION {{<<n, g>> : g \in 1..Len(h[d.items[n].obj].geoms)} : n \in 1..Len(d.items)}

\* the rejected molecules of a dataset, each named by its stage and its position
RejectedSlots(d) ==
  UNION {{<<c, g>> : g \in 1..Len(d.filtered[c].molecules)} : c \in DOMAIN d.filtered}

EntryMols == {DsMol("M3", IdOrd, <<1>>, TRUE), DsMol("M3", RotOrd, <<1>>, TRUE)}

EntryCalls ==
  {AddCall(m, cn, dn) :
     m \in EntryMols, cn \in {"none", "Bad"},
     dn \in {"none", "Imp", "LinP", "Unc", "LinUnc", "ImpUnc", "ImpLinP", "UncLinP"}}

\* DatasetEntry(off_molecule=molecule, index=index, ...) called on its own
NewEntry(index, call) ==
  LET cons == ConsOf(call.cn, call.mol.ord)
      dih == DihOf(call.dn, call.mol.ord)
      v == ValidateEntry(call.mol, cons, dih)
  IN /\ made' = << [mol |-> call.mol, cons |-> cons, dih |-> dih,
                    err |-> v.err, torsion |-> v.torsion, log |-> v.log,
                    entry |-> IF v.err = ""
                                THEN << DatasetEntry(index, call.mol, cons, dih) >>
                                ELSE <<>>] >>
     /\ UNCHANGED <<kept, rejected, fed, heap, ds, last, calls, submitVars, exportVars>>

InitEntry ==
  /\ kept = <<>> /\ rejected = <<>> /\ fed = <<>>
  /\ heap = <<>>
  /\ \E k \in 1..3 : ds = [s \in Slots |-> EmptyDataset(Kinds[k])]
  /\ last = Op("init", 0, 0, NoArg, "", <<>>, 0, 0)
  /\ made = <<>> /\ calls = <<>>
  /\ cfg = <<>> /\ server = <<>> /\ wire = <<>>
  /\ files = <<>> /\ loaded = <<>>

NextEntry ==
  \/ \E i \in Indices, c \in EntryCalls : AddMolecule(1, i, c.mol, c.cn, c.dn)
  \/ \E c \in EntryCalls : NewEntry([core |-> "a", tag |-> 0], c)

SpecEntry == InitEntry /\ [][NextEntry]_vars

\* C11: when the construction of the entry inside add_molecule fails with a
\* ConstraintError or a DihedralConnectionError, add_molecule raises that error
\* and the dataset is as before: its entries, elements and filter ledger.
C11_FailedAddLeavesDataset ==
  [][(AddStep /\ last'.err \in {"ConstraintError", "DihedralConnectionError"})
       => (ds' = ds /\ heap' = heap)]_vars

\* C11 witness: an add_molecule under an index the dataset already holds has
\* raised a DihedralConnectionError.
C11_Witness ==
  /\ last.op = "add_molecule"
  /\ last.err = "DihedralConnectionError"
  /\ \E n \in 1..Len(ds[1].items) : ds[1].items[n].key = last.arg.index
  /\ ds[1].elements # {}

(***************************************************************************)
(* The filter ledger.  ds[1] receives filter_molecules calls under two     *)
(* stage names, between add_molecule calls that store their molecule.      *)
(***************************************************************************)
MaxFilters == 3

FilterStages == {"S1", "S2"}
FilterLists == {<<>>, << DsMol("M1", IdOrd, <<1>>, TRUE) >>,
                << DsMol("M2", IdOrd, <<1>>, TRUE), DsMol("M1", RotOrd, <<1>>, TRUE) >>}

\* ds[s].filter_molecules(molecules, component_name, ...)
FilterMoleculesCall(s, molecules, component_name) ==
  /\ Len(calls) < MaxFilters
  /\ ds' = [ds EXCEPT ![s].filtered = FilterMolecules(@, molecules, component_name)]
  /\ calls' = Append(calls, [component_name |-> component_name,
                             molecules |-> [n \in 1..Len(molecules) |-> ToSmiles(molecules[n])]])
  /\ last' = Op("filter_molecules", s, 0, NoArg, "", <<>>, last.adds, last.merges)
  /\ UNCHANGED <<kept, rejected, fed, heap, made, submitVars, exportVars>>

LedgerCalls == {AddCall(DsMol(sp, IdOrd, <<1>>, TRUE), "none", "none") : sp \in Species}

NextLedger ==
  \/ \E l \in FilterLists, c \in FilterStages : FilterMoleculesCall(1, l, c)
  \/ \E i \in Indices, c \in LedgerCalls : AddMolecule(1, i, c.mol, c.cn, c.dn)

SpecLedger == InitEntry /\ [][NextLedger]_vars

\* the molecules passed to filter_molecules under stage c, from call n on
RECURSIVE PassedUnder(_, _)
PassedUnder(c, n) ==
  IF n > Len(calls) THEN <<>>
  ELSE (IF calls[n].component_name = c THEN calls[n].molecules ELSE <<>>)
         \o PassedUnder(c, n + 1)

\* C17: after any sequence of filter_molecules calls the keys of the ledger are the
\* stage names used, the record under a key carries that key as its stage name, and
\* it lists every molecule passed under that stage name, in the order passed.
C17_OneRecordPerStage ==
  LET filtered_molecules == ds[1].filtered
  IN /\ DOMAIN filtered_molecules = {calls[n].component_name : n \in 1..Len(calls)}
     /\ \A c \in DOMAIN filtered_molecules :
          /\ filtered_molecules[c].component_name = c
          /\ filtered_molecules[c].molecules = PassedUnder(c, 1)

\* C17 witness: a stage was used twice with molecules, with a call under another
\* stage in between.
C17_Witness ==
  /\ Len(calls) = 3
  /\ calls[1].component_name = calls[3].component_name
  /\ calls[2].component_name # calls[1].component_name
  /\ calls[1].molecules # <<>> /\ calls[3].molecules # <<>>
  /\ Len(ds[1].filtered[calls[1].component_name].molecules) >= 2

\* the position of the first record of the log that satisfies P, 0 when there is none
FirstCheck(log, P(_)) ==
  IF \E n \in 1..Len(log) : P(log[n])
    THEN CHOOSE n \in 1..Len(log) : P(log[n]) /\ \A k \in 1..(n - 1) : ~P(log[k])
    ELSE 0

\* the torsion is acceptable: not linear, and a connected proper torsion or else
\* a valid improper torsion
ValidTorsion(t, mol) ==
  /\ CheckLinearTorsions(t, mol)
  /\ CheckTorsionConnection(t, mol) \/ CheckImproperConnection(t, mol)

\* C20: the construction of an entry succeeds only if every dihedral is not linear
\* and is a connected proper torsion or else a valid improper torsion; with valid
\* constraints it otherwise fails with a DihedralConnectionError that names the first
\* unacceptable tuple, a linear tuple being rejected even when it is properly
\* connected; the linearity of a tuple is checked before its connections, and the
\* constraints are checked before any dihedral.
C20_DihedralsValidated ==
  \A n \in 1..Len(made) :
    LET e == made[n]
        bad == {k \in 1..Len(e.dih) : ~ValidTorsion(e.dih[k], e.mol)}
        IsConstraints(c) == c.check = "check_constraints"
        IsDihedral(c) == c.torsion # <<>>
    IN /\ (e.err = "") => (bad = {} /\ e.entry # <<>>)
       /\ (bad # {} /\ CheckConstraints(e.cons, e.mol)) =>
            /\ e.err = "DihedralConnectionError"
            /\ e.entry = <<>>
            /\ \E k \in bad : e.torsion = e.dih[k] /\ \A j \in bad : k <= j
       /\ (bad # {} /\ ~CheckConstraints(e.cons, e.mol)) =>
            (e.err = "ConstraintError" /\ FirstCheck(e.log, IsDihedral) = 0)
       /\ \A k \in 1..Len(e.dih) :
            LET IsLinear(c) == c.check = "check_linear_torsions" /\ c.torsion = e.dih[k]
                IsConnection(c) == /\ c.check \in {"check_torsion_connection",
                                                    "check_improper_connection"}
                                   /\ c.torsion = e.dih[k]
            IN FirstCheck(e.log, IsConnection) # 0 =>
                 /\ FirstCheck(e.log, IsLinear) # 0
                 /\ FirstCheck(e.log, IsLinear) < FirstCheck(e.log, IsConnection)
       /\ FirstCheck(e.log, IsDihedral) # 0 =>
            /\ FirstCheck(e.log, IsConstraints) # 0
            /\ FirstCheck(e.log, IsConstraints) < FirstCheck(e.log, IsDihedral)

\* C20 witness: a properly connected but linear torsion was rejected, after a
\* valid improper torsion of the same entry had been accepted.
C20_Witness ==
  /\ made # <<>>
  /\ made[1].err = "DihedralConnectionError"
  /\ made[1].torsion \in {made[1].dih[k] : k \in 1..Len(made[1].dih)}
  /\ CheckTorsionConnection(made[1].torsion, made[1].mol)
  /\ ~CheckLinearTorsions(made[1].torsion, made[1].mol)
  /\ \E k \in 1..Len(made[1].dih) :
       ~CheckTorsionConnection(made[1].dih[k], made[1].mol)

(***************************************************************************)
(* Submission.  ds[1] and ds[2] are two datasets of one kind with the same *)
(* dataset_name; cfg[s] holds the name, the metadata and the               *)
(* qc_specifications of ds[s].  server maps the type and name of a         *)
(* collection of the archive to its entries, its specifications and the    *)
(* computations requested; wire is the log of the client calls of the      *)
(* last submit and the responses it returned.                              *)
(***************************************************************************)
NoUrl == "None"

\* the QCSpec objects used: spec_name, program and method
QCSpec(spec_name, program, method) ==
  [spec_name |-> spec_name, program |-> program, method |-> method]

DefaultSpec == QCSpec("default", "psi4", "b3lyp-d3bj")
AniSpec == QCSpec("ani", "torchani", "ani1x")
RdkitSpec == QCSpec("rdkit", "rdkit", "uff")

\* the elements of the dzvp basis that the molecules here can contain
BasisElements == {"C", "H", "N", "O", "Cl"}

\* the difference computed for one specification in _get_missing_basis_coverage
MissingElements(spec, elements) ==
  IF spec.program = "torchani"
    THEN elements \ (IF spec.method = "ani2x"
                       THEN {"C", "H", "N", "O", "S", "F", "Cl"}
                       ELSE {"C", "H", "N", "O"})
  ELSE IF spec.program = "psi4" THEN elements \ BasisElements
  ELSE IF spec.program = "openmm"
    THEN elements \ {"C", "H", "N", "O", "P", "S", "Cl", "Br", "F", "I"}
  ELSE {}

\* a variant that never finds a gap
GetMissingBasisCoverageNone(qc_specifications, elements, raise_errors) == ""

\* BasicDataset._get_missing_basis_coverage: the exception raised, "" when none
GetMissingBasisCoverage(qc_specifications, elements, raise_errors) ==
  IF raise_errors /\ \E n \in 1..Len(qc_specifications) :
                        MissingElements(qc_specifications[n], elements) # {}
    THEN "MissingBasisCoverageError"
    ELSE ""

\* Metadata.validate_metadata(raise_errors=True): no field may be None
ValidateMetadata(metadata) ==
  IF metadata.long_description_url = NoUrl THEN "DatasetInputError" ELSE ""

\* the collection type each kind of dataset asks the client for
CollectionType(kind) ==
  IF kind = "DataSet" THEN "Dataset"
  ELSE IF kind = "OptimizationDataset" THEN "OptimizationDataset"
  ELSE "TorsionDriveDataset"

\* one client call of a submit: its name and the entry, specification or
\* collection it is about
Call(name, core, tag) == [call |-> name, arg |-> [core |-> core, tag |-> tag]]

\* the names under which the entries of the dataset are added: index-(tag + j) for
\* geometry j of an entry, and the index itself in a TorsiondriveDataset
RECURSIVE EntryNames(_, _, _)
EntryNames(h, d, n) ==
  IF n > Len(d.items) THEN <<>>
  ELSE LET index == d.items[n].key
           data == h[d.items[n].obj]
       IN (IF d.kind = "TorsiondriveDataset" THEN << index >>
           ELSE [j \in 1..Len(data.geoms) |->
                   [core |-> index.core, tag |-> index.tag + (j - 1)]])
            \o EntryNames(h, d, n + 1)

\* collection.add_entry for each name in turn; a name the collection already
\* holds raises KeyError and is skipped
RECURSIVE AddEntries(_, _, _)
AddEntries(entries, names, n) ==
  IF n > Len(names) THEN entries
  ELSE AddEntries(IF InSeq(names[n], entries) THEN entries ELSE Append(entries, names[n]),
                  names, n + 1)

NewCollection == [entries |-> <<>>, specs |-> {}, computed |-> {}]

\* a variant that always starts from a new, empty collection
OpenCollectionAnew(srv, key) == NewCollection

\* try: client.get_collection(type, name) / except KeyError: a new collection
OpenCollection(srv, key) == IF key \in DOMAIN srv THEN srv[key] ELSE NewCollection

\* a variant that creates the collection whatever the metadata
MetadataErrorNone(kind, metadata) == ""

\* the check made in the except KeyError branch before the collection is created
MetadataError(kind, metadata) ==
  IF kind = "OptimizationDataset"
    THEN (IF metadata.long_description_url = NoUrl THEN "DatasetInputError" ELSE "")
    ELSE ValidateMetadata(metadata)

\* the outcome of ds[s].submit(client, ignore_errors=...) for dataset d with
\* configuration c against the collections srv: the exception raised, the
\* collections afterwards, the client calls made and the responses returned
SubmitOutcome(h, d, c, srv, ignore_errors) ==
  LET key == <<CollectionType(d.kind), c.dataset_name>>
      specs == c.qc_specifications
      coverage == GetMissingBasisCoverage(specs, d.elements, ~ignore_errors)
      exists == key \in DOMAIN srv
      opened == << Call("activate_client", "", 0),
                   Call("get_collection", c.dataset_name, 0) >>
      invalid == IF exists THEN "" ELSE MetadataError(d.kind, c.metadata)
      created == IF exists THEN opened
                 ELSE Append(opened, Call("create_collection", c.dataset_name, 0))
      collection == OpenCollection(srv, key)
      spec_calls ==
        (IF d.kind = "DataSet" THEN <<>> ELSE << Call("add_keywords", "", 0) >>)
          \o [n \in 1..Len(specs) |->
                Call(IF d.kind = "DataSet" THEN "add_keywords" ELSE "add_specification",
                     specs[n].spec_name, 0)]
      names == EntryNames(h, d, 1)
      entry_calls == [n \in 1..Len(names) |-> Call("add_entry", names[n].core, names[n].tag)]
      entries == AddEntries(collection.entries, names, 1)
      computed == SelectSeq(specs, LAMBDA spec : d.kind # "DataSet" \/ Len(entries) > 0)
      compute_calls == [n \in 1..Len(computed) |-> Call("compute", computed[n].spec_name, 0)]
      spec_names == {specs[n].spec_name : n \in 1..Len(specs)}
      stored == {entries[n] : n \in 1..Len(entries)}
      saved == [entries |-> entries,
                specs |-> collection.specs \cup spec_names,
                computed |-> collection.computed \cup (spec_names \X stored)]
  IN IF coverage # ""
       THEN [err |-> coverage, server |-> srv, log |-> <<>>, responses |-> <<>>]
     ELSE IF invalid # ""
       THEN [err |-> invalid, server |-> srv, log |-> opened, responses |-> <<>>]
     ELSE [err |-> "",
           server |-> [k \in DOMAIN srv \cup {key} |-> IF k = key THEN saved ELSE srv[k]],
           log |-> created \o spec_calls \o entry_calls \o << Call("save", "", 0) >>
                     \o compute_calls,
           responses |-> [name \in spec_names |-> stored]]

\* ds[s].submit(client, ignore_errors=ignore_errors)
Submit(s, ignore_errors) ==
  LET r == SubmitOutcome(heap, ds[s], cfg[s], server, ignore_errors)
  IN /\ server' = r.server
     /\ wire' = [log |-> r.log, responses |-> r.responses, ignore_errors |-> ignore_errors]
     /\ last' = Op("submit", s, 0, NoArg, r.err, <<>>, last.adds, last.merges)
     /\ UNCHANGED <<kept, rejected, fed, heap, ds, cfg, entryVars, exportVars>>

\* ds[s].metadata.long_description_url = "https://test.org"
SetUrl(s) ==
  /\ cfg' = [cfg EXCEPT ![s].metadata.long_description_url = "https://test.org"]
  /\ last' = Op("set_url", s, 0, NoArg, "", <<>>, last.adds, last.merges)
  /\ UNCHANGED <<kept, rejected, fed, heap, ds, server, wire, entryVars, exportVars>>

\* a dataset as configured before submission
Config(qc_specifications) ==
  [dataset_name |-> "d", metadata |-> [long_description_url |-> NoUrl],
   qc_specifications |-> qc_specifications]

SubmitCalls ==
  {AddCall(DsMol("M1", IdOrd, <<1>>, TRUE), "none", "none"),
   AddCall(DsMol("M3", IdOrd, <<1, 2>>, TRUE), "none", "none")}

InitSubmit ==
  /\ kept = <<>> /\ rejected = <<>> /\ fed = <<>>
  /\ heap = <<>>
  /\ \E k \in 1..3 : ds = [s \in Slots |-> EmptyDataset(Kinds[k])]
  /\ last = Op("init", 0, 0, NoArg, "", <<>>, 0, 0)
  /\ made = <<>> /\ calls = <<>>
  /\ \E first \in {<< DefaultSpec >>, << AniSpec >>, << DefaultSpec, AniSpec >>},
        second \in {<< RdkitSpec >>, << RdkitSpec, DefaultSpec >>} :
       cfg = << Config(first), Config(second) >>
  /\ server = <<>>
  /\ wire = [log |-> <<>>, responses |-> <<>>, ignore_errors |-> FALSE]
  /\ files = <<>> /\ loaded = <<>>

NextSubmit ==
  \/ \E i \in Indices, c \in SubmitCalls : AddMolecule(1, i, c.mol, c.cn, c.dn)
  \/ \E s \in 1..2 : SetUrl(s)
  \/ \E s \in 1..2, ignore_errors \in BOOLEAN : Submit(s, ignore_errors)

SpecSubmit == InitSubmit /\ [][NextSubmit]_vars

\* the step is a submit of ds[last'.self]
SubmitStep == last'.op = "submit"

\* the collection that a submit of ds[s] asks for
KeyOf(s) == <<CollectionType(ds[s].kind), cfg[s].dataset_name>>

\* some specification of ds[s] leaves an element of the dataset uncovered
HasGap(s) ==
  \E n \in 1..Len(cfg[s].qc_specifications) :
    MissingElements(cfg[s].qc_specifications[n], ds[s].elements) # {}

\* the client calls of the given names in a log
CallsOf(log, names) == {n \in 1..Len(log) : log[n].call \in names}

\* C12: a submit of a dataset with uncovered elements and ignore_errors false raises
\* MissingBasisCoverageError before the client is activated and before any call to
\* the archive; with ignore_errors true the submit goes on to the archive.
C12_CoverageBeforeClient ==
  [][(SubmitStep /\ HasGap(last'.self)) =>
       /\ (~wire'.ignore_errors) => /\ last'.err = "MissingBasisCoverageError"
                                    /\ wire'.log = <<>>
                                    /\ server' = server
       /\ wire'.ignore_errors => /\ last'.err # "MissingBasisCoverageError"
                                 /\ CallsOf(wire'.log, {"get_collection"}) # {}]_vars

\* C12 witness: a collection was made by a submit that ignored the gap, and a
\* later submit of the same dataset without ignore_errors was refused.
C12_Witness ==
  /\ last.op = "submit"
  /\ last.err = "MissingBasisCoverageError"
  /\ HasGap(last.self)
  /\ wire.log = <<>>
  /\ KeyOf(last.self) \in DOMAIN server

C14_ComputeAddedToCollection ==
  [][(/\ SubmitStep
      /\ ds[last'.self].items = <<>>
      /\ KeyOf(last'.self) \in DOMAIN server
      /\ \E n \in 1..Len(cfg[last'.self].qc_specifications) :
           cfg[last'.self].qc_specifications[n].spec_name
             \notin server[KeyOf(last'.self)].specs) =>
       LET key == KeyOf(last'.self)
           specs == cfg[last'.self].qc_specifications
           spec_names == {specs[n].spec_name : n \in 1..Len(specs)}
           stored == {server[key].entries[n] : n \in 1..Len(server[key].entries)}
       IN /\ last'.err = ""
          /\ CallsOf(wire'.log, {"create_collection", "add_entry"}) = {}
          /\ server'[key].entries = server[key].entries
          /\ spec_names \X stored \subseteq server'[key].computed
          /\ spec_names \subseteq server'[key].specs
          /\ DOMAIN wire'.responses = spec_names
          /\ \A name \in spec_names : wire'.responses[name] = stored]_vars

\* C14 witness: a dataset without entries and without a url has added a new
\* specification to a collection that holds entries.
C14_Witness ==
  /\ last.op = "submit" /\ last.err = ""
  /\ ds[last.self].items = <<>>
  /\ cfg[last.self].metadata.long_description_url = NoUrl
  /\ KeyOf(last.self) \in DOMAIN server
  /\ Len(server[KeyOf(last.self)].entries) >= 2
  /\ CallsOf(wire.log, {"create_collection"}) = {}
  /\ CallsOf(wire.log, {"compute"}) # {}
  /\ "rdkit" \in server[KeyOf(last.self)].specs

(***************************************************************************)
(* Export and import.  A file name is a sequence of tokens, "." being the  *)
(* separator; files maps the name of a written file to its JSON content    *)
(* and, as history, to the dataset it was written from; loaded holds the   *)
(* dataset parsed from a file.  cfg[1] holds the name, tagline,            *)
(* description and metadata of ds[1].                                      *)
(***************************************************************************)
MaxExports == 1

FileNames ==
  {<<"data", ".", "json">>, <<"data", ".", "tar", ".", "json">>, <<"json">>,
   <<"data", ".", "yaml">>, <<"data">>}

\* file_name.split("."): the segments between the separators, from token n on,
\* cur being the segment under construction
RECURSIVE Split(_, _, _)
Split(file_name, n, cur) ==
  IF n > Len(file_name) THEN << cur >>
  ELSE IF file_name[n] = "." THEN << cur >> \o Split(file_name, n + 1, <<>>)
  ELSE Split(file_name, n + 1, Append(cur, file_name[n]))

\* file_name.split(".")[-1]
FileType(file_name) ==
  LET parts == Split(file_name, 1, <<>>) IN parts[Len(parts)]

\* an enumeration of a finite set, as a JSON array
SetToList(S) ==
  CHOOSE q \in [1..Cardinality(S) -> S] : \A a, b \in DOMAIN q : a # b => q[a] # q[b]

ListToSet(q) == {q[n] : n \in 1..Len(q)}

\* the metadata a dataset is constructed with: the default, or the metadata of
\* another dataset
Metadata(dataset_name, collection_type, short_description, url) ==
  [dataset_name |-> dataset_name, collection_type |-> collection_type,
   short_description |-> short_description, long_description_url |-> url]

\* BasicDataset.__init__: the metadata is tied to the dataset and completed
BasicDatasetInit(kwargs) ==
  [kwargs EXCEPT
     !.metadata.collection_type = kwargs.dataset_type,
     !.metadata.dataset_name = kwargs.dataset_name,
     !.metadata.short_description = IF @ = "None" THEN kwargs.dataset_tagline ELSE @]

\* the dataset object as a whole: the fields of cfg[1] with the entries, the
\* elements and the filtered molecules of ds[1]
Document(h, d, c) ==
  [dataset_name |-> c.dataset_name, dataset_tagline |-> c.dataset_tagline,
   dataset_type |-> c.dataset_type, metadata |-> c.metadata,
   elements |-> d.elements,
   dataset |-> [n \in 1..Len(d.items) |-> [key |-> d.items[n].key, value |-> h[d.items[n].obj]]],
   filtered_molecules |-> d.filtered]

\* self.json(indent=2): sets become arrays and dicts become objects, that is
\* lists of members
ToJson(doc) ==
  [doc EXCEPT
     !.elements = SetToList(@),
     !.filtered_molecules =
        LET names == SetToList(DOMAIN @)
        IN [n \in 1..Len(names) |-> [key |-> names[n], value |-> @[names[n]]]]]

\* a variant that takes the molecules from off_molecules even when none are given
FilterEntryFromJsonConverts(kwargs) ==
  [component_name |-> kwargs.component_name, molecules |-> <<>>]

\* FilterEntry(**kwargs) without off_molecules: the smiles of kwargs are kept
FilterEntryFromJson(kwargs) ==
  [component_name |-> kwargs.component_name, molecules |-> kwargs.molecules]

\* DatasetEntry(**kwargs) without off_molecule: the geometries of kwargs are kept,
\* the constraints and dihedrals are validated against the molecule made from the
\* attributes, and the geometries are stamped with the smiles of the attributes
DatasetEntryFromJson(kwargs) ==
  LET off_molecule == [sp |-> kwargs.sp, ord |-> kwargs.ord]
      v == IF ~CheckConstraints(kwargs.cons, off_molecule)
             THEN [err |-> "ConstraintError"]
             ELSE ValidateDihedrals(off_molecule, kwargs.dih, 1, <<>>)
  IN [err |-> v.err,
      entry |-> [kwargs EXCEPT !.geoms =
                   [n \in 1..Len(@) |-> [@[n] EXCEPT !.smi = <<kwargs.sp, kwargs.ord>>]]]]

\* BasicDataset.parse_file: the dataset made from the JSON document
ParseDataset(json) ==
  LET entries == [n \in 1..Len(json.dataset) |-> DatasetEntryFromJson(json.dataset[n].value)]
      failed == {n \in 1..Len(entries) : entries[n].err # ""}
      member(c) == CHOOSE n \in 1..Len(json.filtered_molecules) :
                     json.filtered_molecules[n].key = c
      names == {json.filtered_molecules[n].key : n \in 1..Len(json.filtered_molecules)}
  IN [err |-> IF failed = {} THEN "" ELSE entries[CHOOSE n \in failed : TRUE].err,
      doc |-> BasicDatasetInit(
                [json EXCEPT
                   !.elements = ListToSet(@),
                   !.dataset = [n \in 1..Len(@) |->
                                  [key |-> @[n].key, value |-> entries[n].entry]],
                   !.filtered_molecules =
                      [c \in names |->
                         FilterEntryFromJson(json.filtered_molecules[member(c)].value)]])]

\* the outcome of export_dataset(file_name) for the dataset doc
ExportOutcome(file_name, doc) ==
  LET file_type == FileType(file_name)
  IN IF file_type = <<"json">>
       THEN [err |-> "", written |-> TRUE, content |-> ToJson(doc), file_type |-> file_type]
       ELSE [err |-> "UnsupportedFiletypeError", written |-> FALSE, content |-> <<>>,
             file_type |-> file_type]

\* ds[s].export_dataset(file_name); last.acts keeps the name and the file type
\* that the exception names
ExportDataset(s, file_name) ==
  LET doc == Document(heap, ds[s], cfg[s])
      r == ExportOutcome(file_name, doc)
  IN /\ files.exports < MaxExports
     /\ files' = [exports |-> files.exports + 1,
                  disk |-> IF r.written
                             THEN [f \in DOMAIN files.disk \cup {file_name} |->
                                     IF f = file_name
                                       THEN [content |-> r.content, source |-> doc]
                                       ELSE files.disk[f]]
                             ELSE files.disk]
     /\ last' = Op("export_dataset", s, 0, NoArg, r.err,
                   << [file_name |-> file_name, file_type |-> r.file_type] >>,
                   last.adds, last.merges)
     /\ UNCHANGED <<kept, rejected, fed, heap, ds, cfg, server, wire, loaded, entryVars>>

\* BasicDataset.parse_file(file_name)
ImportDataset(file_name) ==
  /\ file_name \in DOMAIN files.disk
  /\ LET r == ParseDataset(files.disk[file_name].content)
     IN /\ loaded' = << [err |-> r.err, doc |-> r.doc,
                           source |-> files.disk[file_name].source] >>
        /\ last' = Op("parse_file", 0, 0, NoArg, r.err, <<>>, last.adds, last.merges)
  /\ UNCHANGED <<kept, rejected, fed, heap, ds, files, submitVars, entryVars>>

ExportCalls ==
  {AddCall(DsMol("M1", RotOrd, <<1, 2>>, TRUE), "X", "T1"),
   AddCall(DsMol("M2", IdOrd, <<>>, TRUE), "none", "none"),
   AddCall(DsMol("M2", IdOrd, <<1>>, FALSE), "none", "none")}

InitExport ==
  /\ kept = <<>> /\ rejected = <<>> /\ fed = <<>>
  /\ heap = <<>>
  /\ made = <<>> /\ calls = <<>>
  /\ last = Op("init", 0, 0, NoArg, "", <<>>, 0, 0)
  /\ server = <<>> /\ wire = <<>>
  /\ files = [exports |-> 0, disk |-> <<>>]
  /\ loaded = <<>>
  /\ \E k \in 1..3,
        metadata \in {Metadata("None", "None", "None", NoUrl),
                      Metadata("other", "DataSet", "short", "https://test.org")} :
       /\ ds = [s \in Slots |-> EmptyDataset(Kinds[k])]
       /\ cfg = << BasicDatasetInit([dataset_name |-> "d", dataset_tagline |-> "tagline",
                                     dataset_type |-> Kinds[k], metadata |-> metadata]) >>

NextExport ==
  \/ \E i \in Indices, c \in ExportCalls : AddMolecule(1, i, c.mol, c.cn, c.dn)
  \/ SetUrl(1)
  \/ \E file_name \in FileNames : ExportDataset(1, file_name)
  \/ \E file_name \in FileNames : ImportDataset(file_name)

SpecExport == InitExport /\ [][NextExport]_vars

\* the step is an export_dataset call
ExportStep == last'.op = "export_dataset" /\ files'.exports = files.exports + 1

\* the extension of a file name: what follows its last separator, nothing when it
\* has no separator
Extension(file_name) ==
  IF \E n \in 1..Len(file_name) : file_name[n] = "."
    THEN LET dot == CHOOSE n \in 1..Len(file_name) :
                      file_name[n] = "." /\ \A k \in (n + 1)..Len(file_name) : file_name[k] # "."
         IN SubSeq(file_name, dot + 1, Len(file_name))
    ELSE <<>>

\* C18: export_dataset with a file name whose extension is not json raises
\* UnsupportedFiletypeError, naming the extension when the name has one, writes no
\* file and leaves the dataset unchanged.
C18_UnsupportedExtensionRejected ==
  [][(ExportStep /\ Extension(last'.acts[1].file_name) # <<"json">>) =>
       /\ last'.err = "UnsupportedFiletypeError"
       /\ (Extension(last'.acts[1].file_name) # <<>>) =>
            (last'.acts[1].file_type = Extension(last'.acts[1].file_name))
       /\ files'.disk = files.disk
       /\ ds' = ds /\ heap' = heap /\ cfg' = cfg]_vars

FilterStep == Len(fed') = Len(fed) + 1 /\ fed'[Len(fed')].op = "filter"

\* C22: filter_molecule returns and leaves the key of its molecule out of kept and
\* in rejected, changes no other key of kept or rejected, and right after the call
\* no key is both in kept and in rejected.
C22_FilterContract ==
  [][FilterStep =>
       LET key == InchiKey(fed'[Len(fed')].mol)
       IN /\ key \notin DOMAIN kept'
          /\ key \in DOMAIN rejected'
          /\ DOMAIN kept' = DOMAIN kept \ {key}
          /\ DOMAIN rejected' = DOMAIN rejected \cup {key}
          /\ \A k \in DOMAIN kept' : kept'[k] = kept[k]
          /\ \A k \in DOMAIN rejected \ {key} : rejected'[k] = rejected[k]
          /\ DOMAIN kept' \cap DOMAIN rejected' = {}]_vars

(***************************************************************************)
(* Key collisions.  The molecules fed include graphs that share their key  *)
(* without being isomorphic, with and without a "dihedrals" property.      *)
(***************************************************************************)
CollidingMolecules ==
  LET plain == {MakeMol(sp, ord, cl) : sp \in {"M1", "M1b"}, ord \in {IdOrd, RotOrd},
                                       cl \in {<<>>, <<1>>, <<2>>}}
  IN plain \cup
     {[f \in DOMAIN m \cup {"dihedrals"} |->
         IF f = "dihedrals" THEN {Torsion(m.ord, 1, 2, 3, 4)} ELSE m[f]] : m \in plain}

NextCollide ==
  \/ \E m \in CollidingMolecules : add_molecule(m)
  \/ \E m \in FilterInputs : filter_molecule(m)

SpecCollide == Init /\ [][NextCollide]_vars

\* the step is an add_molecule call
FeedStep == Len(fed') = Len(fed) + 1 /\ fed'[Len(fed')].op = "add"

\* C23: add_molecule of a molecule whose key is in kept but that is not isomorphic
\* to the kept molecule raises an AssertionError and changes nothing: the kept
\* molecule keeps its conformers and dihedrals, and rejected is as before.
C23_CollisionAsserts ==
  [][(/\ FeedStep
      /\ InchiKey(fed'[Len(fed')].mol) \in DOMAIN kept
      /\ ~AreIsomorphic(fed'[Len(fed')].mol, kept[InchiKey(fed'[Len(fed')].mol)])) =>
       /\ fed'[Len(fed')].err = "AssertionError"
       /\ kept' = kept
       /\ rejected' = rejected]_vars

\* C23 witness: a molecule with conformers and dihedrals that collides with a kept
\* molecule holding conformers and dihedrals was refused.
C23_Witness ==
  /\ Len(fed) >= 2
  /\ fed[Len(fed)].op = "add" /\ fed[Len(fed)].err = "AssertionError"
  /\ fed[Len(fed)].mol.confs # <<>>
  /\ "dihedrals" \in DOMAIN fed[Len(fed)].mol
  /\ InchiKey(fed[Len(fed)].mol) \in DOMAIN kept
  /\ kept[InchiKey(fed[Len(fed)].mol)].confs # <<>>
  /\ "dihedrals" \in DOMAIN kept[InchiKey(fed[Len(fed)].mol)]

(***************************************************************************)
(* Further properties of the datasets (checked under Spec).                *)
(***************************************************************************)
\* attributes["canonical_isomeric_explicit_hydrogen_mapped_smiles"] of an entry
MappedSmiles(entry) == <<entry.sp, entry.ord>>

\* C21: in every dataset every geometry of every entry carries in its extras the
\* mapped SMILES of the attributes of its entry, also a geometry that a merge fused
\* into the entry from an entry written in another atom order.
C21_GeometriesCarryEntrySmiles ==
  \A s \in Slots : \A n \in 1..Len(ds[s].items) :
    \A g \in 1..Len(EntryAt(s, n).geoms) :
      EntryAt(s, n).geoms[g].smi = MappedSmiles(EntryAt(s, n))

\* C21 witness: the last merge fused an entry of `other` into an entry of the result
\* that is written in another atom order and now holds a geometry more.
C21_Witness ==
  /\ last.op = "merge" /\ last.err = ""
  /\ \E a \in 1..Len(last.acts) :
       LET act == last.acts[a]
           from == KeyPos(ds[last.other].items, act.key, 1)
           into == KeyPos(ds[3].items, act.into, 1)
       IN /\ act.act = "fuse"
          /\ from # 0 /\ into # 0
          /\ EntryAt(last.other, from).ord # EntryAt(3, into).ord
          /\ Len(EntryAt(3, into).geoms) >= 2
          /\ EntryAt(3, into).geoms[2].smi = MappedSmiles(EntryAt(3, into))

\* the first add_molecule call on ds[1] for a dataset of each kind
SeedCall(kind) ==
  AddCall(DsMol("M1", IdOrd, <<1>>, TRUE),
          IF kind = "OptimizationDataset" THEN "X" ELSE "none",
          IF kind = "TorsiondriveDataset" THEN "T1" ELSE "none")

\* three datasets of one kind, the first one holding one entry under "a-0"
InitMerge ==
  /\ kept = <<>> /\ rejected = <<>> /\ fed = <<>>
  /\ \E k \in 1..3 :
       LET c == SeedCall(Kinds[k])
           r == AddMoleculeOutcome(<<>>, EmptyDataset(Kinds[k]),
                                   [core |-> "a", tag |-> 0], c.mol, c.cn, c.dn)
           d == [s \in Slots |-> IF s = 1 THEN r.d ELSE EmptyDataset(Kinds[k])]
       IN heap = NormHeap(r.heap, d) /\ ds = NormDs(r.heap, d)
  /\ last = Op("init", 0, 0, NoArg, "", <<>>, 0, 0)
  /\ made = <<>> /\ calls = <<>>
  /\ cfg = <<>> /\ server = <<>> /\ wire = <<>>
  /\ files = <<>> /\ loaded = <<>>

SpecMerge == InitMerge /\ [][Next]_vars

\* the number of geometries stored in the entries of ds[s] at the positions ps
RECURSIVE GeometriesAt(_, _)
GeometriesAt(s, ps) ==
  IF ps = {} THEN 0
  ELSE LET p == CHOOSE q \in ps : TRUE
       IN Len(EntryAt(s, p).geoms) + GeometriesAt(s, ps \ {p})

\* the first entry of ds[o], the first one a merge with `other` = ds[o] handles
FirstIncoming(o) == EntryAt(o, 1)

OptMergeOfSome ==
  /\ MergeReturned
  /\ ds[last'.self].kind = "OptimizationDataset"
  /\ Len(ds[last'.other].items) > 0

\* C24: in a constraint-aware merge an incoming entry that has isomorphic entries in
\* the dataset but none with its constraints is stored under the core of its index
\* with the tag raised by the number of geometries of all those isomorphic entries,
\* and an incoming entry without an isomorphic entry is stored under its own index.
\* Stated for the first entry of `other`, which meets the entries of `self`.
C24_DisambiguatedIndex ==
  [][OptMergeOfSome =>
       LET s == last'.self
           entry == FirstIncoming(last'.other)
           cands == Candidates(s, entry)
           matching == {p \in cands : ConstraintsMatch(EntryAt(s, p), entry)}
           records == GeometriesAt(s, cands)
           root == entry.index.core
           tag == entry.index.tag
           act == last'.acts[1]
       IN /\ (cands # {} /\ matching = {}) =>
               /\ act.act = "rename"
               /\ act.into = [core |-> root, tag |-> tag + records]
               /\ KeyPos(ds'[3].items, act.into, 1) # 0
          /\ (cands = {}) =>
               /\ act.act = "insert"
               /\ act.into = entry.index
               /\ KeyPos(ds'[3].items, entry.index, 1) # 0
               /\ heap'[ds'[3].items[KeyPos(ds'[3].items, entry.index, 1)].obj].index
                    = entry.index]_vars

\* C24 witness: the last merge stored the first entry of `other`, which has the
\* molecule of existing entries but other constraints, under a tag raised by two or
\* more.
C24_Witness ==
  /\ last.op = "merge" /\ last.err = ""
  /\ ds[3].kind = "OptimizationDataset"
  /\ Len(last.acts) > 0
  /\ last.acts[1].act = "rename"
  /\ last.acts[1].into.tag >= last.acts[1].key.tag + 2
  /\ KeyPos(ds[3].items, last.acts[1].into, 1) # 0

\* a dihedral-aware merge returned
TorsionMergeOfAny ==
  MergeReturned /\ ds[last'.self].kind = "TorsiondriveDataset"

\* the entry at position p of the result is the entry of `self` at that position
\* with the geometries of entry behind its own, each one once
FusedAt(p, entry) ==
  LET before == EntryAt(last'.self, p)
      after == heap'[ds'[3].items[p].obj]
      atom_map == AtomMap(entry, before)
  IN /\ after.index = before.index /\ after.dih = before.dih
     /\ Len(after.geoms) >= Len(before.geoms)
     /\ Len(after.geoms) <= Len(before.geoms) + Len(entry.geoms)
     /\ \A g \in 1..Len(before.geoms) : after.geoms[g] = before.geoms[g]
     /\ \A g \in 1..Len(entry.geoms) :
          HasGeometry(after.geoms, Remap(entry.geoms[g].xyz, atom_map))
     /\ \A g \in Len(before.geoms) + 1..Len(after.geoms) :
          ~HasGeometry(before.geoms, after.geoms[g].xyz)

\* the entry at position p of the result is the entry of `self` at that position
SameAt(p) == heap'[ds'[3].items[p].obj] = EntryAt(last'.self, p)

\* C25: in the dihedral-aware merge every incoming entry is handled once, by a fuse or
\* by an insert.  An entry with matching candidates is fused into the first of them in
\* dataset order, all other entries stay as they were and nothing is inserted; an
\* entry without a matching candidate is stored as it is under its index in `other`.
C25_FusedOnceOrInsertedOnce ==
  [][TorsionMergeOfAny =>
       LET s == last'.self
           o == last'.other
           n == Len(ds[s].items)
       IN /\ Len(last'.acts) = Len(ds[o].items)
          /\ \A a \in 1..Len(last'.acts) : last'.acts[a].act \in {"fuse", "insert"}
          /\ (Len(ds[o].items) = 1) =>
               LET entry == FirstIncoming(o)
                   index == ds[o].items[1].key
                   matching == {p \in Candidates(s, entry) :
                                  DihedralsMatch(EntryAt(s, p), entry)}
               IN IF matching # {}
                    THEN LET first == CHOOSE p \in matching : \A q \in matching : p <= q
                         IN /\ last'.acts[1].act = "fuse"
                            /\ Len(ds'[3].items) = n
                            /\ \A p \in 1..n : ds'[3].items[p].key = ds[s].items[p].key
                            /\ FusedAt(first, entry)
                            /\ \A p \in (1..n) \ {first} : SameAt(p)
                    ELSE /\ last'.acts[1].act = "insert"
                         /\ KeyPos(ds'[3].items, index, 1) # 0
                         /\ heap'[ds'[3].items[KeyPos(ds'[3].items, index, 1)].obj] = entry
                         /\ \A p \in 1..n :
                              ds[s].items[p].key # index =>
                                ds'[3].items[p].key = ds[s].items[p].key /\ SameAt(p)
                         /\ Len(ds'[3].items) =
                              IF KeyPos(ds[s].items, index, 1) # 0 THEN n ELSE n + 1]_vars

\* C25 witness: the last merge fused the only entry of `other` into the first of two
\* matching entries, which now holds a geometry more than the second one.
C25_Witness ==
  /\ last.op = "merge" /\ last.err = ""
  /\ ds[3].kind = "TorsiondriveDataset"
  /\ Len(last.acts) = 1 /\ last.acts[1].act = "fuse"
  /\ Len(ds[3].items) = 2
  /\ last.acts[1].into = ds[3].items[1].key
  /\ DihedralsMatch(EntryAt(3, 1), EntryAt(last.other, 1))
  /\ DihedralsMatch(EntryAt(3, 2), EntryAt(last.other, 1))
  /\ AreIsomorphic(EntryAt(3, 2), EntryAt(last.other, 1))
  /\ Len(EntryAt(3, 1).geoms) = 2
  /\ Len(EntryAt(3, 2).geoms) = 1
  /\ ~HasGeometry(EntryAt(3, 2).geoms,
                  Remap(EntryAt(last.other, 1).geoms[1].xyz,
                        AtomMap(EntryAt(last.other, 1), EntryAt(3, 2))))

(***************************************************************************)
(* Further properties of the filter ledger (checked under SpecLedger).     *)
(***************************************************************************)
\* the molecules of a record, each one once
Distinct(molecules) == {molecules[n] : n \in 1..Len(molecules)}

\* C26: the molecules of a FilterEntry form a set: after any sequence of
\* filter_molecules calls a molecule filtered more than once under a stage name is
\* recorded once under that name, and n_filtered counts it once.
C26_FilteredOncePerStage ==
  /\ \A c \in DOMAIN ds[1].filtered :
       Len(ds[1].filtered[c].molecules) = Cardinality(Distinct(ds[1].filtered[c].molecules))
  /\ \A c \in FilterStages :
       (DOMAIN ds[1].filtered = {c}) =>
         NFiltered(ds[1]) = Cardinality(Distinct(ds[1].filtered[c].molecules))

(***************************************************************************)
(* Further properties of the merges.                                       *)
(***************************************************************************)
\* C27: a merge that returns keeps every entry of `self`: the result holds under the
\* same key an entry of the same molecule in the same atom order, and every geometry
\* of the entry of `self` is among its geometries.
C27_MergeKeepsSelf ==
  [][MergeReturned =>
       \A p \in 1..Len(ds[last'.self].items) :
         LET key == ds[last'.self].items[p].key
             before == EntryAt(last'.self, p)
             q == KeyPos(ds'[3].items, key, 1)
         IN /\ q # 0
            /\ heap'[ds'[3].items[q].obj].sp = before.sp
            /\ heap'[ds'[3].items[q].obj].ord = before.ord
            /\ \A g \in 1..Len(before.geoms) :
                 \E k \in 1..Len(heap'[ds'[3].items[q].obj].geoms) :
                   heap'[ds'[3].items[q].obj].geoms[k] = before.geoms[g]]_vars

\* C28: for a Basic or Optimization dataset returned by a merge, the names that submit
\* makes for the geometries of its entries are pairwise different, so a submit to an
\* empty collection adds an entry for every geometry and skips none.
C28_SubmissionNamesDistinct ==
  (ds[3].kind \in {"DataSet", "OptimizationDataset"}) =>
    LET names == EntryNames(heap, ds[3], 1)
    IN /\ \A a, b \in 1..Len(names) : (a # b) => (names[a] # names[b])
       /\ Len(AddEntries(<<>>, names, 1)) = Len(names)

(***************************************************************************)
(* The compute requests of a basic dataset.  Here cfg holds the molecule   *)
(* ids of the records of the collection, the query_limit of the client,    *)
(* the number of compute sets the composition planner yields for a         *)
(* specification and the names of the specifications; server holds the     *)
(* computations the archive knows; wire holds the add_compute calls of the *)
(* last run with what the archive returned, and the responses.             *)
(***************************************************************************)
MaxRecords == 4
MaxComputes == 2
MoleculeIds == 1..3
QueryLimits == {1, 2}

\* the ids of a list as a set
IdSet(idx) == {idx[n] : n \in 1..Len(idx)}

\* a variant that keeps the ids as the records list them
UMolsAsRecorded(molecule_idx) == {molecule_idx}

\* list(set(molecule_idx)): the distinct ids, in an order the program does not fix
UMols(molecule_idx) ==
  {u \in [1..Cardinality(IdSet(molecule_idx)) -> IdSet(molecule_idx)] :
     \A a, b \in DOMAIN u : (a # b) => (u[a] # u[b])}

\* umols[i : i + query_limit] for i in range(0, len(umols), query_limit)
RECURSIVE Chunks(_, _, _)
Chunks(umols, query_limit, i) ==
  IF i > Len(umols) THEN <<>>
  ELSE << SubSeq(umols, i, IF i + query_limit - 1 > Len(umols) THEN Len(umols)
                           ELSE i + query_limit - 1) >>
         \o Chunks(umols, query_limit, i + query_limit)

\* collection.client.add_compute: one id per molecule, sorted into the computations
\* the archive already holds and those it takes on
AddCompute(srv, spec_name, compute_set, chunk_mols) ==
  LET ids == [n \in 1..Len(chunk_mols) |-> <<spec_name, compute_set, chunk_mols[n]>>]
  IN [ids |-> ids,
      submitted |-> SelectSeq(ids, LAMBDA t : t \notin srv),
      existing |-> SelectSeq(ids, LAMBDA t : t \in srv)]

\* the loop over the chunks of one compute set
RECURSIVE ChunkLoop(_, _, _, _, _)
ChunkLoop(w, spec_name, compute_set, chunks, n) ==
  IF n > Len(chunks) THEN w
  ELSE LET ret == AddCompute(w.server, spec_name, compute_set, chunks[n])
       IN ChunkLoop([server |-> w.server \cup IdSet(ret.ids),
                     log |-> Append(w.log, [spec_name |-> spec_name,
                                            compute_set |-> compute_set,
                                            molecule |-> chunks[n], ret |-> ret]),
                     ids |-> w.ids \o ret.ids,
                     submitted |-> w.submitted \o ret.submitted,
                     existing |-> w.existing \o ret.existing],
                    spec_name, compute_set, chunks, n + 1)

\* for compute_set in composition_planner(**dbkeys)
RECURSIVE ComputeSetLoop(_, _, _, _, _)
ComputeSetLoop(w, spec_name, compute_sets, chunks, c) ==
  IF c > compute_sets THEN w
  ELSE ComputeSetLoop(ChunkLoop(w, spec_name, c, chunks, 1),
                      spec_name, compute_sets, chunks, c + 1)

\* for spec in self.qc_specifications.values()
RECURSIVE SpecLoop(_, _, _, _)
SpecLoop(r, c, umols, n) ==
  IF n > Len(c.spec_names) THEN r
  ELSE LET w == ComputeSetLoop([server |-> r.server, log |-> r.log, ids |-> <<>>,
                                submitted |-> <<>>, existing |-> <<>>],
                               c.spec_names[n], c.compute_sets,
                               Chunks(umols, c.query_limit, 1), 1)
           response == [ids |-> w.ids, submitted |-> w.submitted, existing |-> w.existing]
       IN SpecLoop([server |-> w.server, log |-> w.log,
                    responses |-> [s \in DOMAIN r.responses \cup {c.spec_names[n]} |->
                                     IF s = c.spec_names[n] THEN response
                                     ELSE r.responses[s]]],
                   c, umols, n + 1)

\* BasicDataset._dataset_add_compute(collection), umols being list(set(molecule_idx))
DatasetAddCompute(kind, c, srv, umols) ==
  IF kind = "DataSet"
    THEN SpecLoop([server |-> srv, log |-> <<>>, responses |-> <<>>], c, umols, 1)
    ELSE [server |-> srv, log |-> <<>>, responses |-> "None"]

\* ds[1]._dataset_add_compute(collection)
DatasetAddComputeCall ==
  /\ wire.runs < MaxComputes
  /\ \E umols \in UMols(cfg.molecule_idx) :
       LET r == DatasetAddCompute(ds[1].kind, cfg, server, umols)
       IN /\ server' = r.server
          /\ wire' = [log |-> r.log, responses |-> r.responses, runs |-> wire.runs + 1]
  /\ last' = Op("add_compute", 1, 0, NoArg, "", <<>>, last.adds, last.merges)
  /\ UNCHANGED <<kept, rejected, fed, heap, ds, cfg, entryVars, exportVars>>

\* a record with the molecule id is added to the collection
AddRecord(id) ==
  /\ Len(cfg.molecule_idx) < MaxRecords
  /\ cfg' = [cfg EXCEPT !.molecule_idx = Append(@, id)]
  /\ last' = Op("add_entry", 1, 0, NoArg, "", <<>>, last.adds, last.merges)
  /\ UNCHANGED <<kept, rejected, fed, heap, ds, server, wire, entryVars, exportVars>>

InitCompute ==
  /\ kept = <<>> /\ rejected = <<>> /\ fed = <<>>
  /\ heap = <<>>
  /\ \E k \in 1..2 : ds = [s \in Slots |-> EmptyDataset(Kinds[k])]
  /\ last = Op("init", 0, 0, NoArg, "", <<>>, 0, 0)
  /\ made = <<>> /\ calls = <<>>
  /\ \E q \in QueryLimits, c \in 1..2, names \in {<< "default" >>, << "default", "ani" >>} :
       cfg = [molecule_idx |-> <<>>, query_limit |-> q, compute_sets |-> c,
              spec_names |-> names]
  /\ server = {}
  /\ wire = [log |-> <<>>, responses |-> <<>>, runs |-> 0]
  /\ files = <<>> /\ loaded = <<>>

NextCompute ==
  \/ \E id \in MoleculeIds : AddRecord(id)
  \/ DatasetAddComputeCall

SpecCompute == InitCompute /\ [][NextCompute]_vars

\* the add_compute calls of a run for one specification, and for one compute set
CallsFor(log, spec_name) == SelectSeq(log, LAMBDA call : call.spec_name = spec_name)
CallsForSet(log, spec_name, compute_set) ==
  SelectSeq(log, LAMBDA call : call.spec_name = spec_name /\ call.compute_set = compute_set)

\* the lists of a field of what the archive returned for the calls, one after another
RECURSIVE Returned(_, _, _)
Returned(log, field, n) ==
  IF n > Len(log) THEN <<>> ELSE log[n].ret[field] \o Returned(log, field, n + 1)

\* C29: in _dataset_add_compute of a basic dataset, for every specification and every
\* compute set the ids go to the archive in chunks of at most query_limit ids that are
\* pairwise disjoint and together are the distinct molecule ids of the collection, and
\* the response of the specification holds the ids, submitted and existing lists of
\* all its calls, one after another.
C29_ChunkedCompute ==
  [][(last'.op = "add_compute" /\ ds[1].kind = "DataSet") =>
       /\ DOMAIN wire'.responses = IdSet(cfg.spec_names)
       /\ \A s \in IdSet(cfg.spec_names) :
            /\ \A c \in 1..cfg.compute_sets :
                 LET sent == CallsForSet(wire'.log, s, c)
                 IN /\ \A n \in 1..Len(sent) :
                         /\ Len(sent[n].molecule) <= cfg.query_limit
                         /\ Len(sent[n].molecule) = Cardinality(IdSet(sent[n].molecule))
                    /\ \A a, b \in 1..Len(sent) :
                         (a # b) => (IdSet(sent[a].molecule) \cap IdSet(sent[b].molecule) = {})
                    /\ UNION {IdSet(sent[n].molecule) : n \in 1..Len(sent)}
                         = IdSet(cfg.molecule_idx)
            /\ wire'.responses[s].ids = Returned(CallsFor(wire'.log, s), "ids", 1)
            /\ wire'.responses[s].submitted = Returned(CallsFor(wire'.log, s), "submitted", 1)
            /\ wire'.responses[s].existing = Returned(CallsFor(wire'.log, s), "existing", 1)
            /\ Len(wire'.responses[s].ids)
                 = cfg.compute_sets * Cardinality(IdSet(cfg.molecule_idx))]_vars

\* C29 witness: a run for records that repeat a molecule id sent three distinct ids
\* in two chunks for each of two compute sets, and the archive knew some of them.
C29_Witness ==
  /\ last.op = "add_compute"
  /\ ds[1].kind = "DataSet"
  /\ cfg.query_limit = 2 /\ cfg.compute_sets = 2
  /\ Cardinality(IdSet(cfg.molecule_idx)) = 3
  /\ Len(cfg.molecule_idx) = 4
  /\ Len(CallsForSet(wire.log, "default", 2)) = 2
  /\ wire.responses["default"].existing # <<>>
  /\ wire.responses["default"].submitted # <<>>

(***************************************************************************)
(* The geometries of the entries: molecules with no, one and two           *)
(* conformers are added and the datasets are merged.                       *)
(***************************************************************************)
GeomCalls(kind) ==
  {AddCall(m, IF kind = "OptimizationDataset" THEN "X" ELSE "none",
              IF kind = "TorsiondriveDataset" THEN "T1" ELSE "none") :
     m \in {DsMol("M1", IdOrd, cl, TRUE) : cl \in {<<>>, <<1>>, <<1, 2>>, <<2, 1>>}}
           \cup {DsMol("M1", RotOrd, <<2>>, TRUE), DsMol("M2", IdOrd, <<>>, TRUE)}}

NextGeoms ==
  \/ \E s \in {1, 2}, i \in Indices :
       \E c \in GeomCalls(ds[s].kind) : AddMolecule(s, i, c.mol, c.cn, c.dn)
  \/ \E s \in {1, 3}, o \in Slots : Merge(s, o)

SpecGeoms == InitEntry /\ [][NextGeoms]_vars

\* the coordinates of the geometries of an entry
Coordinates(entry) == [g \in 1..Len(entry.geoms) |-> entry.geoms[g].xyz]

\* every entry of every dataset has a first geometry
EveryEntryHasGeometry ==
  \A s \in Slots : \A n \in 1..Len(ds[s].items) : Len(EntryAt(s, n).geoms) >= 1

\* add_molecule, called in this state with any of the molecules, stores one geometry
\* for a molecule without conformers and else the conformers in their order
AddStoresConformers ==
  \A s \in {1, 2}, i \in Indices : \A c \in GeomCalls(ds[s].kind) :
    LET r == AddMoleculeOutcome(heap, ds[s], i, c.mol, c.cn, c.dn)
        p == KeyPos(r.d.items, i, 1)
    IN /\ r.err = ""
       /\ p # 0
       /\ IF Len(c.mol.confs) = 0
            THEN Len(r.heap[r.d.items[p].obj].geoms) = 1
            ELSE Coordinates(r.heap[r.d.items[p].obj]) = c.mol.confs

\* a merge that returned left the geometries of an entry of `self` that is still in
\* the result at the front of the geometries of that entry
MergeAppends ==
  MergeReturned =>
    \A p \in 1..Len(ds[last'.self].items) :
      LET q == KeyPos(ds'[3].items, ds[last'.self].items[p].key, 1)
      IN (q # 0 /\ heap'[ds'[3].items[q].obj].sp = EntryAt(last'.self, p).sp
                /\ heap'[ds'[3].items[q].obj].ord = EntryAt(last'.self, p).ord) =>
           /\ Len(heap'[ds'[3].items[q].obj].geoms) >= Len(EntryAt(last'.self, p).geoms)
           /\ \A g \in 1..Len(EntryAt(last'.self, p).geoms) :
                heap'[ds'[3].items[q].obj].geoms[g] = EntryAt(last'.self, p).geoms[g]

\* C30: every entry stored in a dataset has at least one geometry in every state:
\* add_molecule stores one generated geometry for a molecule without conformers and
\* the n conformers in their order for a molecule with n >= 1, and a merge only
\* appends geometries, so the first geometry of an existing entry is always there.
C30_EntriesHaveGeometry ==
  [][EveryEntryHasGeometry' /\ AddStoresConformers /\ MergeAppends]_vars

\* C30 witness: a merge fused two conformers, stored in their order by add_molecule,
\* behind the generated geometry of an entry made from a molecule without conformers.
C30_Witness ==
  /\ last.op = "merge" /\ last.err = ""
  /\ \E n \in 1..Len(ds[3].items) :
       /\ Len(EntryAt(3, n).geoms) = 3
       /\ EntryAt(3, n).geoms[1].xyz = Frame(0, EntryAt(3, n).ord)
  /\ \E n \in 1..Len(ds[last.other].items) :
       Coordinates(EntryAt(last.other, n))
         = << Frame(1, EntryAt(last.other, n).ord), Frame(2, EntryAt(last.other, n).ord) >>
====
